---- MODULE Spec2Model ----
(***************************************************************************)
(* A model of the request-handling core of the HTTP file server           *)
(* (src/src/ops.rs): HttpHandler's dispatch over a filesystem, the byte-   *)
(* range branches, the file-encoding cache and the PUT staging pipeline.   *)
(***************************************************************************)
EXTENDS Integers, Sequences, FiniteSets, TLC

VARIABLES
    fs,         \* the filesystem: existing path -> node (file, dir or symlink)
    cfg,        \* the handler's configuration (HttpHandler's public fields)
    build,      \* whether the build checks integer overflow (debug) or wraps
    cache_gen,  \* HttpHandler.cache_gen: key -> compressed bytes
    cache_fs,   \* HttpHandler.cache_fs: key -> (path, is-compressed)
    put,        \* the PUT being handled (its position in handle_put_file)
    last,       \* the most recently completed request and its response
    nreq,       \* requests started so far
    flight,     \* the GETs inside handle_get_file_encoded or
                \* handle_generated_response_encoding, between their steps
    poisoned,   \* a request panicked holding the write lock of cache_fs
    current,    \* which handler cfg, cache_gen and cache_fs are: 0 is the one
                \* made by HttpHandler::new, n the n-th clone
    other,      \* the other handlers (HttpHandler::clone)
    listen,     \* try_ports: its arguments, its position and its result
    parked,     \* a second PUT being handled, while its thread does not run
    walk        \* parse_requested_path step by step: the fold's accumulator
                \* and its position

vars == <<fs, cfg, build, cache_gen, cache_fs, put, last, nreq, flight, poisoned,
          current, other, listen, parked, walk>>

\* what only the PUT threads and the resolver change
aside == <<parked, walk>>

\* what request handling leaves alone
aux == <<poisoned, current, other, listen, aside>>

----------------------------------------------------------------------------
(* Bounds *)

\* longest PUT body, in bytes
MaxBody == 1
\* longest file drawn for the range and encoding specifications, in bytes
MaxLen == 3
\* requests per behaviour
MaxReqs == 2

\* how many times the handler is cloned
MaxClones == 1

----------------------------------------------------------------------------
(* Paths and the filesystem *)

\* hosted_directory.1: the hosted root; Out is a directory outside it
Root == <<"srv">>
Out == <<"out">>
TempBase == <<"tmp">>
Names == {"a", "l"}
Bytes == {1, 2}

RECURSIVE SeqsUpTo(_, _)
SeqsUpTo(S, n) ==
    IF n = 0 THEN {<<>>}
    ELSE LET shorter == SeqsUpTo(S, n - 1)
         IN shorter \cup {Append(s, x) : s \in {t \in shorter : Len(t) = n - 1}, x \in S}

IsPrefix(p, q) == Len(p) <= Len(q) /\ SubSeq(q, 1, Len(p)) = p

\* q is p or lies below p
Under(p, q) == IsPrefix(p, q)

Parent(p) == SubSeq(p, 1, Len(p) - 1)

FileName(p) == p[Len(p)]

FileNode(d) == [t |-> <<>>, d |-> d, k |-> "file"]
DirNode == [t |-> <<>>, d |-> <<>>, k |-> "dir"]
LinkNode(t) == [t |-> t, d |-> <<>>, k |-> "link"]

\* Path::exists, Path::is_file, Path::is_dir on a resolved path
Exists(f, p) == p \in DOMAIN f
IsFile(f, p) == p \in DOMAIN f /\ f[p].k = "file"
IsDir(f, p) == p \in DOMAIN f /\ f[p].k = "dir"
IsLink(f, p) == p \in DOMAIN f /\ f[p].k = "link"

\* metadata().len() and the bytes of a file
FileLen(f, p) == Len(f[p].d)
FileData(f, p) == f[p].d

Restrict(f, S) == [p \in S |-> f[p]]

\* fs::remove_file
RemoveFile(f, p) == Restrict(f, DOMAIN f \ {p})

\* fs::remove_dir_all: the directory and everything below it
RemoveDirAll(f, p) == Restrict(f, {q \in DOMAIN f : ~Under(p, q)})

\* fs::create_dir_all: every missing ancestor becomes a directory; it fails,
\* changing nothing, when a component exists and is not a directory
CreateDirAll(f, p) ==
    LET comps == {SubSeq(p, 1, i) : i \in 0..Len(p)}
    IN IF \E c \in comps : c \in DOMAIN f /\ f[c].k # "dir"
       THEN f
       ELSE [q \in DOMAIN f \cup comps |-> IF q \in DOMAIN f THEN f[q] ELSE DirNode]

\* File::create followed by writes: p holds d afterwards
WriteFile(f, p, d) == [q \in DOMAIN f \cup {p} |-> IF q = p THEN FileNode(d) ELSE f[q]]

\* File::create / fs::copy can open p for writing
CanWrite(f, p) == IsDir(f, Parent(p)) /\ (Exists(f, p) => IsFile(f, p))

----------------------------------------------------------------------------
(* Path resolution *)

\* URL segments as sent: "%6C" is the percent-encoding of "l", "%FF" decodes
\* to invalid UTF-8
Segs == {"a", "%6C", "%FF"}

\* the request URLs: every path of at most two segments
URLs == {<<>>} \cup {<<s>> : s \in Segs} \cup {<<s, t>> : s \in Segs, t \in Segs}

\* util::percent_decode: <<name>> for Some(name), <<>> for None
percent_decode(seg) ==
    CASE seg = "%6C" -> <<"l">>
      [] seg = "%FF" -> <<>>
      [] OTHER -> <<seg>>

\* the while-let loop of parse_requested_path: follow every hop of a chain
RECURSIVE FollowLinks(_, _, _)
FollowLinks(f, cur, sk) ==
    IF IsLink(f, cur) THEN FollowLinks(f, f[cur].t, TRUE) ELSE <<cur, sk>>

RECURSIVE ParseFold(_, _, _, _, _)
ParseFold(f, segs, cur, sk, err) ==
    IF segs = <<>> THEN [p |-> cur, sk |-> sk, err |-> err]
    ELSE LET d == percent_decode(Head(segs))
             pushed == IF d # <<>> THEN Append(cur, d[1]) ELSE cur
             r == FollowLinks(f, pushed, sk)
         IN ParseFold(f, Tail(segs), r[1], r[2], err \/ d = <<>>)

\* parse_requested_path that stops at the first segment that fails to decode
parse_requested_path_StopAtError(f, url) ==
    LET segs == SelectSeq(url, LAMBDA s : s # "")
        bad == {i \in 1..Len(segs) : percent_decode(segs[i]) = <<>>}
        stop == IF bad = {} THEN Len(segs) ELSE CHOOSE i \in bad : \A j \in bad : i <= j
    IN ParseFold(f, SubSeq(segs, 1, stop), Root, FALSE, FALSE)

parse_requested_path(f, url) ==
    ParseFold(f, SelectSeq(url, LAMBDA s : s # ""), Root, FALSE, FALSE)

\* util::detect_file_as_dir: an ancestor of p is an existing file
detect_file_as_dir(f, p) ==
    \E i \in 0..(Len(p) - 1) : IsFile(f, SubSeq(p, 1, i))

----------------------------------------------------------------------------
(* Requests and responses *)

\* the Range request header: none, bytes=a-b (ft), bytes=a- (af), bytes=-a
\* (last), several ranges (multi), a unit other than bytes (unreg)
Range(k, a, b) == [k |-> k, a |-> a, b |-> b]
NoRange == Range("none", 0, 0)

\* the codecs response_encoding can negotiate; "" is no Accept-Encoding header
SupportedEncodings == {"gzip", "deflate"}

\* util::response_encoding: <<enc>> for Some(enc), <<>> for None
response_encoding(ae) == IF ae \in SupportedEncodings THEN <<ae>> ELSE <<>>

\* util::encoding_extension
encoding_extension(enc) == IF enc = "gzip" THEN "gz" ELSE "dflt"

\* a response: status (0: the handler faulted and sent none), body and whether
\* there is one, the generated page (if any), Content-Range <<first, last,
\* instance length>>, Content-Length (-1: not set by the handler),
\* Content-Encoding, whether Last-Modified is set, the Allow header, the
\* path whose bytes were served, whether the handler ran a codec, the
\* Location header (a URL), and the rows of a directory listing
Resp0 ==
    [st |-> 0, body |-> <<>>, hb |-> FALSE, gen |-> "", cr |-> <<>>, cl |-> -1,
     ce |-> "", lm |-> FALSE, allow |-> {}, src |-> <<>>, tried |-> FALSE,
     loc |-> <<>>, rows |-> <<>>]

Fault == Resp0

\* what a handler returns: the response and the state it leaves
Result(r, f, cg, cf) == [fs |-> f, cg |-> cg, cf |-> cf, resp |-> r]

Unchanged(r) == Result(r, fs, cache_gen, cache_fs)

Min(a, b) == IF a < b THEN a ELSE b

\* u64 arithmetic: the model's words are 16 bits wide
UMod == 2 ^ 16
USub(a, b) == (a - b) % UMod
UAdd(a, b) == (a + b) % UMod

Zeros(n) == [i \in 1..n |-> 0]

----------------------------------------------------------------------------
(* Compression *)

\* a codec, as run-length coding: gzip writes (byte, count) pairs, deflate
\* (count, byte) pairs
RECURSIVE RunLength(_, _)
RunLength(d, enc) ==
    IF d = <<>> THEN <<>>
    ELSE LET b == Head(d)
             n == CHOOSE k \in 1..Len(d) :
                      /\ \A i \in 1..k : d[i] = b
                      /\ (k = Len(d) \/ d[k + 1] # b)
             pair == IF enc = "gzip" THEN <<b, n>> ELSE <<n, b>>
         IN pair \o RunLength(SubSeq(d, n + 1, Len(d)), enc)

\* util::encode_str and the bytes util::encode_file writes
Compress(d, enc) == RunLength(d, enc)

\* util::file_hash and md6::hash: the digest is collision-free, so it is
\* identified with the bytes it digests
file_hash(f, p) == FileData(f, p)

\* util::MIN_ENCODING_SIZE, util::MAX_ENCODING_SIZE (scaled to the model's file
\* sizes) and util::MIN_ENCODING_GAIN = MinGainNum / MinGainDen
MIN_ENCODING_SIZE == 0
MAX_ENCODING_SIZE == 1024
MinGainNum == 11
MinGainDen == 10

\* util::BLACKLISTED_ENCODING_EXTENSIONS
BLACKLISTED_ENCODING_EXTENSIONS == {"gz", "zip", "png"}

\* Path::extension: <<ext>> or <<>>; the index files are the names of the
\* model that have one
extension(p) ==
    IF p = <<>> THEN <<>>
    ELSE CASE FileName(p) = "index.html" -> <<"html">>
           [] FileName(p) = "index.htm" -> <<"htm">>
           [] OTHER -> <<>>

EncodedDir == Append(TempBase, "encoded")
WritesDir == Append(TempBase, "writes")

\* create_temp_dir
create_temp_dir(f, td) == IF ~Exists(f, td) THEN CreateDirAll(f, td) ELSE f

\* resp_p of handle_get_file_encoded: the artifact's path, named by the digest
ArtifactPath(hash, ext, enc) ==
    Append(EncodedDir,
           ToString(hash) \o (IF ext # <<>> THEN "." \o ext[1] ELSE "")
                          \o "." \o encoding_extension(enc))

----------------------------------------------------------------------------
(* Generated pages *)

\* util::html_response: the bytes of a generated page, from its status line
\* and the detail that tells pages of one status apart
html_response(title, detail) == title \o <<detail>>

\* handle_generated_response_encoding
handle_generated_response_encoding(req, st, page, resp) ==
    LET enc == response_encoding(req.ae)
        key == <<resp, req.ae>>
        plain == Unchanged([Resp0 EXCEPT !.st = st, !.body = resp, !.hb = TRUE, !.gen = page])
    IN IF enc = <<>> THEN plain
       ELSE IF key \in DOMAIN cache_gen
       THEN Unchanged([Resp0 EXCEPT !.st = st, !.body = cache_gen[key], !.hb = TRUE,
                                    !.gen = page, !.ce = enc[1]])
       ELSE IF req.codec
       THEN LET enc_resp == Compress(resp, enc[1])
                cache == [k \in DOMAIN cache_gen \cup {key} |->
                              IF k = key THEN enc_resp ELSE cache_gen[k]]
            IN Result([Resp0 EXCEPT !.st = st, !.body = cache[key], !.hb = TRUE,
                                    !.gen = page, !.ce = enc[1], !.tried = TRUE],
                      fs, cache, cache_fs)
       ELSE [plain EXCEPT !.resp.tried = TRUE]

Generated(req, st, page, detail) ==
    handle_generated_response_encoding(req, st, page, html_response(<<st>>, detail))

\* handle_invalid_url, handle_nonexistant, handle_invalid_range,
\* handle_forbidden_method, handle_put_partial_content
handle_invalid_url(req, cause) == Generated(req, 400, "400 " \o cause, IF cause = "utf8" THEN 1 ELSE 2)
handle_nonexistant(req, req_p) == Generated(req, 404, "404", Len(req.url))
handle_invalid_range(req, req_p, reason) == Generated(req, 416, "416 " \o reason, 0)
handle_forbidden_method(req) == Generated(req, 403, "403", 0)
handle_put_partial_content(req) == Generated(req, 400, "400 partial", 3)

\* handle_disallowed_method: the generated 405 with the Allow header set
handle_disallowed_method(req, allowed) ==
    LET r == Generated(req, 405, "405", 0)
    IN [r EXCEPT !.resp.allow = allowed]

----------------------------------------------------------------------------
(* GET of a file with a Range header *)

\* handle_get_file_closed_range with a buffer one byte short
handle_get_file_closed_range_Short(req, req_p, from, to) ==
    LET data == FileData(fs, req_p)
        flen == Len(data)
        n == to - from
        got == IF from < flen THEN SubSeq(data, from + 1, Min(to, flen)) ELSE <<>>
        buf == got \o Zeros(n - Len(got))
    IN Unchanged([Resp0 EXCEPT !.st = 206, !.body = buf, !.hb = TRUE, !.lm = TRUE,
                               !.cr = <<from, to, flen>>, !.src = req_p])

\* handle_get_file_closed_range: a buffer of to + 1 - from zero bytes, filled
\* by one read at offset from
handle_get_file_closed_range(req, req_p, from, to) ==
    LET data == FileData(fs, req_p)
        flen == Len(data)
        n == to + 1 - from
        got == IF from < flen THEN SubSeq(data, from + 1, Min(to + 1, flen)) ELSE <<>>
        buf == got \o Zeros(n - Len(got))
    IN Unchanged([Resp0 EXCEPT !.st = 206, !.body = buf, !.hb = TRUE, !.lm = TRUE,
                               !.cr = <<from, to, flen>>, !.src = req_p])

\* handle_get_file_opened_range: the file from the seek position on, with
\* Content-Range b_from-(flen - 1)/flen; flen - 1 is u64 arithmetic
handle_get_file_opened_range(req_p, pos, b_from, clen) ==
    LET data == FileData(fs, req_p)
        flen == Len(data)
    IN IF flen = 0 /\ build.overflow_checks THEN Unchanged(Fault)
       ELSE Unchanged([Resp0 EXCEPT !.st = 206, !.body = SubSeq(data, pos + 1, flen),
                                    !.hb = TRUE, !.lm = TRUE,
                                    !.cr = <<b_from, USub(flen, 1), flen>>,
                                    !.cl = clen, !.src = req_p])

\* handle_get_file_right_opened_range
handle_get_file_right_opened_range(req, req_p, from) ==
    LET flen == FileLen(fs, req_p)
    IN handle_get_file_opened_range(req_p, from, from, flen - from)

\* handle_get_file_left_opened_range: SeekFrom::End(-from)
handle_get_file_left_opened_range(req, req_p, from) ==
    LET flen == FileLen(fs, req_p)
    IN handle_get_file_opened_range(req_p, flen - from, flen - from, from)

\* handle_get_file_empty_range
handle_get_file_empty_range(req, req_p, from, to) ==
    Unchanged([Resp0 EXCEPT !.st = 204, !.lm = TRUE,
                            !.cr = <<from, to, FileLen(fs, req_p)>>])

\* the test that sends an open-ended or suffix range to the empty-range response
RangeIsEmpty(flen, from) == flen < from

\* handle_get_file_range
handle_get_file_range(req, req_p) ==
    LET range == req.range
        flen == FileLen(fs, req_p)
    IN CASE range.k = "ft" -> handle_get_file_closed_range(req, req_p, range.a, range.b)
         [] range.k = "af" ->
                IF RangeIsEmpty(flen, range.a)
                THEN handle_get_file_empty_range(req, req_p, range.a, flen)
                ELSE handle_get_file_right_opened_range(req, req_p, range.a)
         [] range.k = "last" ->
                IF RangeIsEmpty(flen, range.a)
                THEN handle_get_file_empty_range(req, req_p, range.a, flen)
                ELSE handle_get_file_left_opened_range(req, req_p, range.a)
         [] range.k = "multi" -> handle_invalid_range(req, req_p, "multiple")
         [] OTHER -> handle_invalid_range(req, req_p, "custom")

----------------------------------------------------------------------------
(* GET of a whole file *)

\* the response that sends req_p itself: 200 with Last-Modified
Identity(req_p, f, cf) ==
    Result([Resp0 EXCEPT !.st = 200, !.body = FileData(f, req_p), !.hb = TRUE,
                         !.lm = TRUE, !.src = req_p],
           f, cache_gen, cf)

\* the handler called encode_file on the way to its response
Tried(res) == [res EXCEPT !.resp.tried = TRUE]

\* the cache key of handle_get_file_encoded
CacheKey(req_p, enc) == <<file_hash(fs, req_p), enc>>

\* gain < MIN_ENCODING_GAIN, for a file of flen bytes compressed to clen
GainTooLow(flen, clen) == flen * MinGainDen < clen * MinGainNum

\* NegativeEntry naming the artifact instead of the original
NegativeEntry_Artifact(req_p, resp_p) == [p |-> resp_p, c |-> FALSE]

\* the entry handle_get_file_encoded records when the gain is too low
NegativeEntry(req_p, resp_p) == [p |-> req_p, c |-> FALSE]

\* CacheInsert that records nothing
CacheInsert_Drop(cache, key, entry) == cache

\* the cache with key bound to entry
CacheInsert(cache, key, entry) ==
    [k \in DOMAIN cache \cup {key} |-> IF k = key THEN entry ELSE cache[k]]

\* EncodeFailed that records the failure as a negative entry
EncodeFailed_Cached(req_p, f, cache_key) ==
    Tried(Identity(req_p, f, CacheInsert(cache_fs, cache_key, NegativeEntry(req_p, req_p))))

\* handle_get_file_encoded when encode_file returns false: the failure is
\* logged and the original is sent
EncodeFailed(req_p, f, cache_key) == Tried(Identity(req_p, f, cache_fs))

\* handle_get_file_encoded
handle_get_file_encoded(req, req_p) ==
    LET enc == response_encoding(req.ae)
    IN IF enc = <<>> THEN Identity(req_p, fs, cache_fs)
       ELSE
       LET encoding == enc[1]
           fs1 == create_temp_dir(fs, EncodedDir)
           cache_key == CacheKey(req_p, encoding)
           resp_p == ArtifactPath(cache_key[1], extension(req_p), encoding)
       IN IF poisoned THEN Result(Fault, fs1, cache_gen, cache_fs)
          ELSE IF cache_key \in DOMAIN cache_fs
          THEN LET hit == cache_fs[cache_key]
               IN IF ~IsFile(fs1, hit.p) THEN Result(Fault, fs1, cache_gen, cache_fs)
                  ELSE IF hit.c
                  THEN Result([Resp0 EXCEPT !.st = 200, !.body = FileData(fs1, hit.p),
                                            !.hb = TRUE, !.ce = encoding, !.src = hit.p],
                              fs1, cache_gen, cache_fs)
                  ELSE Identity(hit.p, fs1, cache_fs)
          ELSE IF req.codec /\ CanWrite(fs1, resp_p)
          THEN LET fs2 == WriteFile(fs1, resp_p, Compress(FileData(fs1, req_p), encoding))
               IN IF GainTooLow(FileLen(fs2, req_p), FileLen(fs2, resp_p))
                  THEN Tried(Identity(req_p, RemoveFile(fs2, resp_p),
                                      CacheInsert(cache_fs, cache_key,
                                                  NegativeEntry(req_p, resp_p))))
                  ELSE Result([Resp0 EXCEPT !.st = 200, !.body = FileData(fs2, resp_p),
                                            !.hb = TRUE, !.ce = encoding, !.src = resp_p,
                                            !.tried = TRUE],
                              fs2, cache_gen,
                              CacheInsert(cache_fs, cache_key, [p |-> resp_p, c |-> TRUE]))
          ELSE EncodeFailed(req_p, fs1, cache_key)

\* the test of handle_get_file that sends a file to handle_get_file_encoded
Eligible(req_p) ==
    /\ cfg.encoded_temp_dir
    /\ FileLen(fs, req_p) > MIN_ENCODING_SIZE
    /\ FileLen(fs, req_p) < MAX_ENCODING_SIZE
    /\ \A e \in {extension(req_p)} : e = <<>> \/ e[1] \notin BLACKLISTED_ENCODING_EXTENSIONS

\* handle_get_file
handle_get_file(req, req_p) ==
    IF Eligible(req_p) THEN handle_get_file_encoded(req, req_p)
    ELSE Identity(req_p, fs, cache_fs)

\* str::cmp on the names of the model: the names in byte order
RawOrder == <<"A", "B", "a", "b", "d", "index.htm", "index.html", "l">>

Rank(n) == CHOOSE i \in 1..Len(RawOrder) : RawOrder[i] = n

\* str::to_lowercase
to_lowercase(n) ==
    CASE n = "A" -> "a"
      [] n = "B" -> "b"
      [] OTHER -> n

Reverse(s) == [i \in 1..Len(s) |-> s[Len(s) + 1 - i]]

RECURSIVE ByName(_)
ByName(S) ==
    IF S = {} THEN <<>>
    ELSE LET n == CHOOSE x \in S : \A y \in S : Rank(x) <= Rank(y)
         IN <<n>> \o ByName(S \ {n})

\* Path::read_dir: the names in the directory, in an order the filesystem
\* chooses (tie: ascending or descending byte order)
read_dir(f, p, tie) ==
    LET names == {FileName(q) : q \in {c \in DOMAIN f : Len(c) = Len(p) + 1 /\ Under(p, c)}}
    IN IF tie THEN Reverse(ByName(names)) ELSE ByName(names)

\* the sort key with the file type left out
ListingKey_NameOnly(f, q) == <<0, Rank(to_lowercase(FileName(q)))>>

\* the sort key of handle_get_dir_listing: (is_file, lowercased name);
\* DirEntry::file_type does not follow a symlink
ListingKey(f, q) == <<IF IsFile(f, q) THEN 1 ELSE 0, Rank(to_lowercase(FileName(q)))>>

\* Ord on the key tuples
KeyLeq(a, b) == a[1] < b[1] \/ (a[1] = b[1] /\ a[2] <= b[2])

\* sorted_by: the names of s in key order; names with equal keys stay in the
\* order s has them
RECURSIVE sorted_by(_, _, _)
sorted_by(f, p, s) ==
    IF s = <<>> THEN <<>>
    ELSE LET key(i) == ListingKey(f, Append(p, s[i]))
             m == CHOOSE i \in 1..Len(s) :
                      /\ \A j \in 1..Len(s) : KeyLeq(key(i), key(j))
                      /\ \A j \in 1..(i - 1) : ~KeyLeq(key(j), key(i))
         IN <<s[m]>> \o sorted_by(f, p, SubSeq(s, 1, m - 1) \o SubSeq(s, m + 1, Len(s)))

\* handle_get_dir_listing: the generated page of the entries of req_p, the
\* symlinks left out unless follow_symlinks, sorted by ListingKey
handle_get_dir_listing(req, req_p) ==
    LET listed == SelectSeq(read_dir(fs, req_p, req.tie),
                            LAMBDA n : cfg.follow_symlinks \/ ~IsLink(fs, Append(req_p, n)))
        sorted == sorted_by(fs, req_p, listed)
        is_file(n) == IsFile(fs, Append(req_p, n))
        page == <<200, Len(SelectSeq(req.url, LAMBDA x : x # ""))>>
                \o [i \in 1..Len(sorted) |->
                        2 * Rank(sorted[i]) + (IF is_file(sorted[i]) THEN 1 ELSE 0)]
        r == handle_generated_response_encoding(req, 200, "listing", page)
    IN [r EXCEPT !.resp.rows = [i \in 1..Len(sorted) |-> <<sorted[i], is_file(sorted[i])>>]]

\* handle_get_dir_index_no_slash: 301 to the request URL plus "/"
handle_get_dir_index_no_slash(req, idx_ext) ==
    Unchanged([Resp0 EXCEPT !.st = 301, !.loc = Append(req.url, "")])

\* util::INDEX_EXTENSIONS, in the order they are tried
INDEX_EXTENSIONS == <<"html", "htm", "shtml">>

\* req.url.path().pop() == Some(""): the URL ends in "/" (<<>> is the URL "/")
TrailingSlash(url) == url = <<>> \/ url[Len(url)] = ""

\* handle_get_dir that serves the index whether or not the URL ends in "/"
handle_get_dir_NoRedirect(req, req_p) ==
    LET idx(e) == Append(req_p, "index." \o e)
        found == SelectSeq(INDEX_EXTENSIONS, LAMBDA e : Exists(fs, idx(e)))
    IN IF cfg.check_indices /\ found # <<>>
       THEN handle_get_file(req, idx(found[1]))
       ELSE handle_get_dir_listing(req, req_p)

\* handle_get_dir
handle_get_dir(req, req_p) ==
    LET idx(e) == Append(req_p, "index." \o e)
        found == SelectSeq(INDEX_EXTENSIONS, LAMBDA e : Exists(fs, idx(e)))
    IN IF cfg.check_indices /\ found # <<>>
       THEN IF TrailingSlash(req.url)
            THEN handle_get_file(req, idx(found[1]))
            ELSE handle_get_dir_index_no_slash(req, found[1])
       ELSE handle_get_dir_listing(req, req_p)

\* Nonexistant without the symlink policy
Nonexistant_IgnoreSymlink(req_p, symlink) == ~Exists(fs, req_p)

\* the test of handle_get and handle_delete that answers 404
Nonexistant(req_p, symlink) == ~Exists(fs, req_p) \/ (symlink /\ ~cfg.follow_symlinks)

\* handle_get with the nonexistence test before the decode-error test
handle_get_NonexistantFirst(req) ==
    LET r == parse_requested_path(fs, req.url)
        req_p == r.p
        file == IsFile(fs, req_p)
    IN IF Nonexistant(req_p, r.sk) THEN handle_nonexistant(req, req_p)
       ELSE IF r.err THEN handle_invalid_url(req, "utf8")
       ELSE IF file /\ req.range.k # "none" THEN handle_get_file_range(req, req_p)
       ELSE IF file THEN handle_get_file(req, req_p)
       ELSE handle_get_dir(req, req_p)

\* handle_get
handle_get(req) ==
    LET r == parse_requested_path(fs, req.url)
        req_p == r.p
        file == IsFile(fs, req_p)
    IN IF r.err THEN handle_invalid_url(req, "utf8")
       ELSE IF Nonexistant(req_p, r.sk) THEN handle_nonexistant(req, req_p)
       ELSE IF file /\ req.range.k # "none" THEN handle_get_file_range(req, req_p)
       ELSE IF file THEN handle_get_file(req, req_p)
       ELSE handle_get_dir(req, req_p)

\* a Head arm that skips content negotiation
handle_head_NoEncoding(req) ==
    LET r == handle_get([req EXCEPT !.ae = ""])
    IN [r EXCEPT !.resp.body = <<>>, !.resp.hb = FALSE]

\* the Head arm of Handler::handle: handle_get with the body dropped
handle_head(req) ==
    LET r == handle_get(req)
    IN [r EXCEPT !.resp.body = <<>>, !.resp.hb = FALSE]

----------------------------------------------------------------------------
(* DELETE *)

\* handle_delete_path that unlinks the target only
handle_delete_path_Shallow(req, req_p) ==
    Result([Resp0 EXCEPT !.st = 204], RemoveFile(fs, req_p), cache_gen, cache_fs)

\* handle_delete_path
handle_delete_path(req, req_p) ==
    Result([Resp0 EXCEPT !.st = 204],
           IF IsFile(fs, req_p) THEN RemoveFile(fs, req_p) ELSE RemoveDirAll(fs, req_p),
           cache_gen, cache_fs)

\* handle_delete that resolves the path before it tests whether writes are
\* enabled
handle_delete_ResolveFirst(req) ==
    LET r == parse_requested_path(fs, req.url)
    IN IF r.err THEN handle_invalid_url(req, "utf8")
       ELSE IF ~cfg.writes_temp_dir THEN handle_forbidden_method(req)
       ELSE IF Nonexistant(r.p, r.sk) THEN handle_nonexistant(req, r.p)
       ELSE handle_delete_path(req, r.p)

\* handle_delete
handle_delete(req) ==
    IF ~cfg.writes_temp_dir THEN handle_forbidden_method(req)
    ELSE LET r == parse_requested_path(fs, req.url)
         IN IF r.err THEN handle_invalid_url(req, "utf8")
            ELSE IF Nonexistant(r.p, r.sk) THEN handle_nonexistant(req, r.p)
            ELSE handle_delete_path(req, r.p)

----------------------------------------------------------------------------
(* PUT *)

\* handle_put_branch with the Content-Range rule moved before the directory rule
handle_put_branch_RangeFirst(req) ==
    LET r == parse_requested_path(fs, req.url)
    IN IF ~cfg.writes_temp_dir THEN "forbidden"
       ELSE IF r.err THEN "invalid_url"
       ELSE IF req.crh THEN "partial_content"
       ELSE IF IsDir(fs, r.p) THEN "directory"
       ELSE IF detect_file_as_dir(fs, r.p) THEN "file_as_dir"
       ELSE "put_file"

\* the branch handle_put takes: the first rule that matches
handle_put_branch(req) ==
    LET r == parse_requested_path(fs, req.url)
    IN IF ~cfg.writes_temp_dir THEN "forbidden"
       ELSE IF r.err THEN "invalid_url"
       ELSE IF IsDir(fs, r.p) THEN "directory"
       ELSE IF detect_file_as_dir(fs, r.p) THEN "file_as_dir"
       ELSE IF req.crh THEN "partial_content"
       ELSE "put_file"

\* the methods handle_put allows on a directory
DirectoryAllowed == {"OPTIONS", "GET", "DELETE", "HEAD", "TRACE"}

\* handle_put, for a request it rejects
handle_put_rejected(req) ==
    LET b == handle_put_branch(req)
    IN CASE b = "forbidden" -> handle_forbidden_method(req)
         [] b = "invalid_url" -> handle_invalid_url(req, "utf8")
         [] b = "directory" -> handle_disallowed_method(req, DirectoryAllowed)
         [] b = "file_as_dir" -> handle_invalid_url(req, "file as directory")
         [] OTHER -> handle_put_partial_content(req)

\* StagingPath without staging: the body is written to the destination itself
StagingPath_InPlace(req_p) == req_p

\* temp_file_p of handle_put_file: named by the final segment of req_p
StagingPath(req_p) == Append(WritesDir, FileName(req_p))

\* the status of handle_put_file
PutStatus(existant) == IF existant THEN 204 ELSE 201

NoPut == [p |-> <<>>, req |-> <<>>, existant |-> FALSE, active |-> FALSE, id |-> 0,
          tmp |-> <<>>, rest |-> <<>>]

----------------------------------------------------------------------------
(* Cloning and starting the server *)

\* a handler: its number, its configuration and its caches
Handler(id, c, cg, cf) == [cfg |-> c, cache_gen |-> cg, cache_fs |-> cf, id |-> id]

\* a clone that copies the caches
Clone_CopyCaches(id) == Handler(id, cfg, cache_gen, cache_fs)

\* impl Clone for HttpHandler: the configuration copied, both caches
\* Default::default()
Clone(id) == Handler(id, cfg, <<>>, <<>>)

\* u16, scaled to two bits: the ports are 0..3
PortMod == 2 ^ 2
Ports == 0..(PortMod - 1)

\* what Iron::http does on a port: it binds ("ok"), it fails with a message
\* that contains "port" ("port"), it fails with another message ("other")
BindOutcomes == {"ok", "port", "other"}

\* up_to + 1 overflows u16
RangeOverflows == listen.up_to + 1 >= PortMod

\* the end of from..up_to + 1 in a build that wraps
RangeEnd == (listen.up_to + 1) % PortMod

\* try_ports: up_to + 1 panics in a build that checks overflow
TryPortsOverflow ==
    /\ listen.result = ""
    /\ listen.attempts = <<>>
    /\ RangeOverflows /\ build.overflow_checks
    /\ listen' = [listen EXCEPT !.result = "panic"]
    /\ UNCHANGED <<fs, cfg, build, cache_gen, cache_fs, put, last, nreq, flight, poisoned,
                   current, other, aside>>

TryPortsRunning ==
    /\ listen.result = ""
    /\ ~(RangeOverflows /\ build.overflow_checks)

\* one iteration of the loop of try_ports: Iron::new(hndlr.clone()).http(port)
TryPort ==
    /\ TryPortsRunning
    /\ listen.port < RangeEnd
    /\ other' = Append(other, Clone(Len(other) + 1))
    /\ listen' = [listen EXCEPT
                     !.attempts = Append(@, listen.port),
                     !.port = @ + 1,
                     !.result = CASE listen.bind[listen.port] = "ok" -> "listening"
                                  [] listen.bind[listen.port] = "other" -> "start"
                                  [] OTHER -> ""]
    /\ UNCHANGED <<fs, cfg, build, cache_gen, cache_fs, put, last, nreq, flight, poisoned,
                   current, aside>>

\* the loop of try_ports ends: Err "no free ports"
TryPortsExhausted ==
    /\ TryPortsRunning
    /\ listen.port >= RangeEnd
    /\ listen' = [listen EXCEPT !.result = "no free ports"]
    /\ UNCHANGED <<fs, cfg, build, cache_gen, cache_fs, put, last, nreq, flight, poisoned,
                   current, other, aside>>

----------------------------------------------------------------------------
(* Actions *)

Request(m, url, range, ae, codec, body, crh, clh, tie) ==
    [url |-> url, ae |-> ae, body |-> body, codec |-> codec, range |-> range,
     tie |-> tie, m |-> m, crh |-> crh, clh |-> clh]

NoRequest == Request("", <<>>, NoRange, "", FALSE, <<>>, FALSE, FALSE, FALSE)

\* a handler returned (or faulted): its response and the state it leaves
Complete(id, req, res) ==
    /\ last' = [resp |-> res.resp, req |-> req, id |-> id]
    /\ fs' = res.fs
    /\ cache_gen' = res.cg
    /\ cache_fs' = res.cf
    /\ UNCHANGED <<cfg, build, aux>>

\* Handler::handle, method::Get
Get(req) ==
    /\ nreq < MaxReqs
    /\ Complete(nreq + 1, req, handle_get(req))
    /\ nreq' = nreq + 1
    /\ UNCHANGED <<put, flight>>

\* Handler::handle, method::Head
Head_(req) ==
    /\ nreq < MaxReqs
    /\ Complete(nreq + 1, req, handle_head(req))
    /\ nreq' = nreq + 1
    /\ UNCHANGED <<put, flight>>

\* Handler::handle, method::Delete
Delete(req) ==
    /\ nreq < MaxReqs
    /\ Complete(nreq + 1, req, handle_delete(req))
    /\ nreq' = nreq + 1
    /\ UNCHANGED <<put, flight>>

\* handle_put for a request it rejects
PutReject(req) ==
    /\ nreq < MaxReqs
    /\ ~put.active
    /\ handle_put_branch(req) # "put_file"
    /\ Complete(nreq + 1, req, handle_put_rejected(req))
    /\ nreq' = nreq + 1
    /\ UNCHANGED <<put, flight>>

\* handle_put for a request it accepts, up to the creation of the staging
\* file: create_temp_dir, the log line (which unwraps Content-Length),
\* File::create(temp_file_p)
PutBegin(req) ==
    /\ nreq < MaxReqs
    /\ ~put.active
    /\ handle_put_branch(req) = "put_file"
    /\ nreq' = nreq + 1
    /\ LET req_p == parse_requested_path(fs, req.url).p
           fs1 == create_temp_dir(fs, WritesDir)
           temp_file_p == StagingPath(req_p)
       IN IF ~req.clh \/ ~CanWrite(fs1, temp_file_p)
          THEN Complete(nreq + 1, req, Result(Fault, fs1, cache_gen, cache_fs))
               /\ UNCHANGED <<put, flight>>
          ELSE /\ fs' = WriteFile(fs1, temp_file_p, <<>>)
               /\ put' = [p |-> req_p, req |-> req, existant |-> Exists(fs, req_p),
                          active |-> TRUE, id |-> nreq + 1, tmp |-> temp_file_p,
                          rest |-> req.body]
               /\ UNCHANGED <<cfg, build, cache_gen, cache_fs, last, flight, aux>>

\* a write of byte b through a handle whose offset is off: the file grows, with
\* a hole of zeros, when it is shorter than the offset
WriteAt(d, off, b) ==
    [i \in 1..(IF Len(d) > off + 1 THEN Len(d) ELSE off + 1) |->
        IF i = off + 1 THEN b ELSE IF i <= Len(d) THEN d[i] ELSE 0]

\* io::copy(&mut req.body, staging file): one more byte of the body arrives
PutStream ==
    /\ put.active
    /\ put.rest # <<>>
    /\ IsFile(fs, put.tmp)
    /\ fs' = WriteFile(fs, put.tmp,
                       WriteAt(FileData(fs, put.tmp), Len(put.req.body) - Len(put.rest),
                               Head(put.rest)))
    /\ put' = [put EXCEPT !.rest = Tail(put.rest)]
    /\ UNCHANGED <<cfg, build, cache_gen, cache_fs, last, nreq, flight, aux>>

\* the connection drops while the body is streamed: io::copy fails and its
\* unwrap faults the request
PutInterrupt ==
    /\ put.active
    /\ put.rest # <<>>
    /\ Complete(put.id, put.req, Unchanged(Fault))
    /\ put' = NoPut
    /\ UNCHANGED <<nreq, flight>>

\* the rest of handle_put_file once the body is staged: create_dir_all of the
\* parent, fs::copy to the destination, the response
PutFinish ==
    /\ put.active
    /\ put.rest = <<>>
    /\ put' = NoPut
    /\ UNCHANGED <<nreq, flight>>
    /\ LET fs1 == CreateDirAll(fs, Parent(put.p))
       IN IF IsFile(fs1, put.tmp) /\ CanWrite(fs1, put.p)
          THEN Complete(put.id, put.req,
                        Result([Resp0 EXCEPT !.st = PutStatus(put.existant)],
                               WriteFile(fs1, put.p, FileData(fs1, put.tmp)),
                               cache_gen, cache_fs))
          ELSE Complete(put.id, put.req, Result(Fault, fs1, cache_gen, cache_fs))

----------------------------------------------------------------------------
(* The server over a hosted tree with a symlink that leaves it *)

\* the PUT bodies: one of each length
BodyOf(n) == [i \in 1..n |-> i]
Bodies == {BodyOf(n) : n \in 0..MaxBody}

InitFS ==
    (<<>> :> DirNode) @@ (Root :> DirNode) @@ (Out :> DirNode) @@ (TempBase :> DirNode)
    @@ (Append(Root, "a") :> FileNode(<<2>>))
    @@ (Append(Root, "l") :> LinkNode(Out))
    @@ (Append(Out, "a") :> FileNode(<<2, 2>>))

Config(fl, w, e, ci) ==
    [encoded_temp_dir |-> e, follow_symlinks |-> fl, check_indices |-> ci,
     writes_temp_dir |-> w]

NoLast == [resp |-> Resp0, req |-> NoRequest, id |-> 0]

\* parse_requested_path not running
NoWalk == [cur |-> <<>>, sk |-> FALSE, segs |-> <<>>, err |-> FALSE, url |-> <<>>,
           pc |-> "idle", hopped |-> FALSE]

\* try_ports not called
NoListen == [from |-> 0, up_to |-> 0, result |-> "", attempts |-> <<>>, port |-> 0, bind |-> <<>>]

\* one handler serving, no request inside the encoding handlers, no server
\* being started
Idle ==
    /\ put = NoPut
    /\ last = NoLast
    /\ nreq = 0
    /\ flight = <<>>
    /\ poisoned = FALSE
    /\ current = 0
    /\ other = <<>>
    /\ listen = NoListen
    /\ parked = NoPut
    /\ walk = NoWalk

Init ==
    /\ fs = InitFS
    /\ cfg \in {Config(fl, w, FALSE, FALSE) : fl \in BOOLEAN, w \in BOOLEAN}
    /\ build = [overflow_checks |-> TRUE]
    /\ cache_gen = <<>>
    /\ cache_fs = <<>>
    /\ Idle

Plain(m, url) == Request(m, url, NoRange, "", FALSE, <<>>, FALSE, FALSE, FALSE)

Next ==
    \/ \E url \in URLs : Get(Plain("GET", url))
    \/ \E url \in URLs : Head_(Plain("HEAD", url))
    \/ \E url \in URLs : Delete(Plain("DELETE", url))
    \/ \E url \in URLs, body \in Bodies, crh \in BOOLEAN, clh \in BOOLEAN :
           PutReject(Request("PUT", url, NoRange, "", FALSE, body, crh, clh, FALSE))
    \/ \E url \in URLs, body \in Bodies, crh \in BOOLEAN, clh \in BOOLEAN :
           PutBegin(Request("PUT", url, NoRange, "", FALSE, body, crh, clh, FALSE))
    \/ PutStream
    \/ PutInterrupt
    \/ PutFinish

Spec == Init /\ [][Next]_vars

----------------------------------------------------------------------------
(* Symlink policy *)

\* p lies outside the hosted root and outside the handler's temp directory
Outside(p) == ~Under(Root, p) /\ ~Under(TempBase, p)

\* resolving url follows a symlink, and the handler does not follow symlinks
ThroughSymlink(url) == parse_requested_path(fs, url).sk /\ ~cfg.follow_symlinks

DecodeError(url) == parse_requested_path(fs, url).err

\* C1: with follow_symlinks disabled no request of any method, PUT included,
\* serves, writes or deletes a path outside the hosted root: a request that
\* resolved through a symlink has no effect on the link target.
C1_NoEscapeWithoutFollow ==
    [][~cfg.follow_symlinks =>
        /\ \A p \in DOMAIN fs \cup DOMAIN fs' :
              Outside(p) => p \in DOMAIN fs /\ p \in DOMAIN fs' /\ fs'[p] = fs[p]
        /\ last'.id # last.id /\ last'.resp.src # <<>> => ~Outside(last'.resp.src)]_vars

\* C2 as stated: a GET, HEAD or DELETE that resolved through a symlink with
\* follow_symlinks disabled is answered 404, and nothing is removed.
C2_SymlinkAlways404 ==
    [][(/\ last'.id # last.id
        /\ last'.req.m \in {"GET", "HEAD", "DELETE"}
        /\ ThroughSymlink(last'.req.url))
       => last'.resp.st = 404 /\ fs' = fs]_vars

\* the status of a GET, HEAD or DELETE that resolved through a symlink
SymlinkStatus(req) ==
    IF req.m = "DELETE" /\ ~cfg.writes_temp_dir THEN 403
    ELSE IF DecodeError(req.url) THEN 400
    ELSE 404

\* C2 as amended: such a request is answered 403 if it is a DELETE and writes
\* are disabled, else 400 if a segment of its URL fails to percent-decode,
\* else 404 even when the link target exists; in every case nothing of the
\* link target is served and nothing is removed.
C2_SymlinkNeverServed ==
    [][(/\ last'.id # last.id
        /\ last'.req.m \in {"GET", "HEAD", "DELETE"}
        /\ ThroughSymlink(last'.req.url))
       => /\ last'.resp.st = SymlinkStatus(last'.req)
          /\ last'.resp.src = <<>>
          /\ fs' = fs]_vars

\* a DELETE through the symlink was answered 404 and the link target is still
\* there
C2_Witness ==
    /\ ~cfg.follow_symlinks
    /\ last.req.m = "DELETE"
    /\ last.resp.st = 404
    /\ parse_requested_path(fs, last.req.url).sk
    /\ IsFile(fs, parse_requested_path(fs, last.req.url).p)

----------------------------------------------------------------------------
(* PUT, GET, DELETE round trip *)

\* C3: requests run one after the other on a path that is not a directory.
\* An accepted PUT answers 204 if the path existed and 201 if not; the GET
\* that follows answers 200 with the body that was PUT; a DELETE that follows
\* a PUT answers 204; the GET that follows that DELETE answers 404; a second
\* PUT of the path answers 204.
C3_RoundTrip ==
    [][/\ (/\ put.active /\ ~put'.active /\ put.rest = <<>>
           /\ last.id < put.id)
          => /\ last'.resp.st = IF Exists(fs, put.p) THEN 204 ELSE 201
             /\ (/\ last.req.m = "PUT" /\ last.resp.st \in {201, 204}
                 /\ last.req.url = put.req.url)
                => last'.resp.st = 204
       /\ (/\ ~put.active
           /\ last.req.m = "PUT" /\ last.resp.st \in {201, 204}
           /\ last'.id = last.id + 1
           /\ last'.req.url = last.req.url)
          => /\ last'.req.m = "GET"
                => last'.resp.st = 200 /\ last'.resp.body = last.req.body
             /\ last'.req.m = "DELETE" => last'.resp.st = 204
       /\ (/\ ~put.active
           /\ last.req.m = "DELETE" /\ last.resp.st = 204
           /\ last'.id = last.id + 1
           /\ last'.req.url = last.req.url
           /\ last'.req.m = "GET")
          => last'.resp.st = 404]_vars

----------------------------------------------------------------------------
(* PUT rejections *)

\* the status the rules of C9 give a PUT, in their order; 0: none rejects it
RejectionStatus(req) ==
    LET r == parse_requested_path(fs, req.url)
    IN IF ~cfg.writes_temp_dir THEN 403
       ELSE IF r.err THEN 400
       ELSE IF IsDir(fs, r.p) THEN 405
       ELSE IF \E i \in 0..(Len(r.p) - 1) : IsFile(fs, SubSeq(r.p, 1, i)) THEN 400
       ELSE IF req.crh THEN 400
       ELSE 0

\* C9: PUT is rejected by the first rule that matches, in the order writes
\* disabled (403), undecodable URL (400), existing directory (405 with Allow =
\* OPTIONS, GET, DELETE, HEAD, TRACE), file used as a directory (400),
\* Content-Range header (400); a rejected PUT leaves the filesystem as it
\* was (no staging file, no temp dir, the destination unchanged), and a PUT
\* that a rule rejects is never accepted.
C9_PutRejections ==
    [][/\ (last'.id # last.id /\ last'.req.m = "PUT" /\ ~put.active
           /\ RejectionStatus(last'.req) # 0)
          => /\ last'.resp.st = RejectionStatus(last'.req)
             /\ last'.resp.st = 405 => last'.resp.allow = {"OPTIONS", "GET", "DELETE", "HEAD", "TRACE"}
             /\ last'.resp.st # 405 => last'.resp.allow = {}
             /\ fs' = fs
       /\ (~put.active /\ put'.active) => RejectionStatus(put'.req) = 0]_vars

\* a PUT that uses a file as a directory and carries Content-Range was
\* answered by the file-as-directory rule, and no temp dir exists
C9_Witness ==
    /\ last.req.m = "PUT"
    /\ last.req.crh
    /\ last.resp.st = 400
    /\ last.resp.gen = "400 file as directory"
    /\ ~Exists(fs, WritesDir)

----------------------------------------------------------------------------
(* PUT staging *)

\* p is the same in f and g: absent in both, or the same node
SameAt(f, g, p) == (p \in DOMAIN f <=> p \in DOMAIN g) /\ (p \in DOMAIN f => f[p] = g[p])

\* C10: the steps of an accepted PUT before its final copy (creating the
\* staging file, streaming the body into it, the upload being interrupted)
\* leave the destination path as it was.
C10_DestinationOnlyAtCopy ==
    [][(put' # put /\ (put'.active \/ put.rest # <<>>))
       => LET dest == IF put'.active THEN put'.p ELSE put.p
          IN SameAt(fs, fs', dest)]_vars

\* an upload to an existing file was interrupted: the staging file is there,
\* the destination still holds what it held
C10_Witness ==
    /\ ~put.active
    /\ last.req.m = "PUT"
    /\ last.resp.st = 0
    /\ last.req.clh
    /\ LET dest == parse_requested_path(fs, last.req.url).p
       IN /\ IsFile(fs, dest)
          /\ IsFile(fs, StagingPath(dest))
          /\ FileData(fs, dest) # last.req.body
          /\ FileData(fs, StagingPath(dest)) # last.req.body

----------------------------------------------------------------------------
(* Range requests on one file, of every content up to MaxLen bytes, in a
   debug and in a release build *)

RangeFile == Append(Root, "a")

InitRange ==
    /\ fs \in {[InitFS EXCEPT ![RangeFile] = FileNode(d)] : d \in SeqsUpTo(Bytes, MaxLen)}
    /\ cfg = Config(FALSE, FALSE, FALSE, FALSE)
    /\ build \in {[overflow_checks |-> c] : c \in BOOLEAN}
    /\ cache_gen = <<>>
    /\ cache_fs = <<>>
    /\ Idle

Ranged(range) == Request("GET", <<"a">>, range, "", FALSE, <<>>, FALSE, FALSE, FALSE)

\* the offsets a Range header names: up to one past the longest file
Offsets == 0..(MaxLen + 1)

NextRange ==
    \/ \E from \in Offsets, to \in Offsets : from <= to /\ Get(Ranged(Range("ft", from, to)))
    \/ \E from \in Offsets : Get(Ranged(Range("af", from, 0)))
    \/ \E from \in Offsets : Get(Ranged(Range("last", from, 0)))
    \/ \E k \in {"multi", "unreg"} : Get(Ranged(Range(k, 0, 0)))

SpecRange == InitRange /\ [][NextRange]_vars

\* the file's bytes first..last, counted from 0
Slice(data, first, last_) == SubSeq(data, first + 1, last_ + 1)

\* C4: a closed range bytes=from-to with 0 <= from <= to < L on a file of L
\* bytes is answered 206 with exactly the to - from + 1 bytes [from, to] of the
\* file and Content-Range from-to/L.
C4_ClosedRange ==
    LET data == FileData(fs, RangeFile)
        range == last.req.range
    IN (range.k = "ft" /\ range.b < Len(data))
       => /\ last.resp.st = 206
          /\ last.resp.hb
          /\ Len(last.resp.body) = range.b - range.a + 1
          /\ last.resp.body = Slice(data, range.a, range.b)
          /\ last.resp.cr = <<range.a, range.b, Len(data)>>

\* the middle byte of a three-byte file was served
C4_Witness ==
    /\ Len(FileData(fs, RangeFile)) = 3
    /\ last.req.range = Range("ft", 1, 1)
    /\ last.resp.st = 206
    /\ last.resp.body = <<FileData(fs, RangeFile)[2]>>

\* C5: an open-ended range bytes=A- on a file of L bytes is answered, if
\* A >= L, by the empty-range response (204, no body, Content-Range with
\* instance length L), and otherwise by 206 with the bytes [A, L-1] and
\* Content-Length L - A.
C5_OpenEndedRange ==
    LET data == FileData(fs, RangeFile)
        range == last.req.range
    IN range.k = "af"
       => IF range.a >= Len(data)
          THEN /\ last.resp.st = 204
               /\ ~last.resp.hb
               /\ last.resp.cr # <<>> /\ last.resp.cr[3] = Len(data)
          ELSE /\ last.resp.st = 206
               /\ last.resp.body = Slice(data, range.a, Len(data) - 1)
               /\ last.resp.cl = Len(data) - range.a

\* C6: a suffix range bytes=-N on a file of L bytes is answered, if N > L, by
\* 204 with no body and Content-Range with instance length L, and otherwise
\* by 206 with the last N bytes, Content-Range (L-N)-(L-1)/L and
\* Content-Length N.
C6_SuffixRange ==
    LET data == FileData(fs, RangeFile)
        range == last.req.range
    IN range.k = "last"
       => IF range.a > Len(data)
          THEN /\ last.resp.st = 204
               /\ ~last.resp.hb
               /\ last.resp.cr # <<>> /\ last.resp.cr[3] = Len(data)
          ELSE /\ last.resp.st = 206
               /\ last.resp.body = Slice(data, Len(data) - range.a, Len(data) - 1)
               /\ last.resp.cr = <<Len(data) - range.a, Len(data) - 1, Len(data)>>
               /\ last.resp.cl = range.a

----------------------------------------------------------------------------
(* The encoding cache: two regular files of every content up to MaxLen bytes,
   encoding and writes enabled *)

EncFiles == {Append(Root, n) : n \in Names}

InitEnc ==
    /\ fs \in {[InitFS EXCEPT ![Append(Root, "a")] = FileNode(d1),
                              ![Append(Root, "l")] = FileNode(d2)] :
                 d1 \in SeqsUpTo(Bytes, MaxLen), d2 \in {<<1, 1, 1>>, <<1>>}}
    /\ cfg = Config(FALSE, TRUE, TRUE, FALSE)
    /\ build = [overflow_checks |-> TRUE]
    /\ cache_gen = <<>>
    /\ cache_fs = <<>>
    /\ Idle

EncURLs == {<<n>> : n \in Names}

NextEnc ==
    \/ \E url \in EncURLs, ae \in {""} \cup SupportedEncodings, codec \in BOOLEAN :
           Get(Request("GET", url, NoRange, ae, codec, <<>>, FALSE, FALSE, FALSE))
    \/ \E url \in EncURLs : Delete(Plain("DELETE", url))
    \/ \E url \in EncURLs, body \in Bodies :
           PutBegin(Request("PUT", url, NoRange, "", FALSE, body, FALSE, TRUE, FALSE))
    \/ PutStream
    \/ PutFinish

SpecEnc == InitEnc /\ [][NextEnc]_vars

\* req is a GET, with a negotiated encoding and no Range, of a file that
\* handle_get_file sends to handle_get_file_encoded
EncodedGet(req) ==
    LET r == parse_requested_path(fs, req.url)
    IN /\ req.m = "GET"
       /\ req.range = NoRange
       /\ req.ae \in SupportedEncodings
       /\ ~r.err /\ ~Nonexistant(r.p, r.sk)
       /\ IsFile(fs, r.p)
       /\ Eligible(r.p)

\* the step is the request that follows the answered GET `last`, and is the
\* same GET; nothing ran in between and nothing is running
RepeatedGet ==
    /\ ~put.active
    /\ last'.id = last.id + 1
    /\ last.resp.st = 200
    /\ last'.req.m = last.req.m
    /\ last'.req.url = last.req.url
    /\ last'.req.ae = last.req.ae
    /\ last'.req.range = last.req.range
    /\ EncodedGet(last.req)

KeyOf(req) == CacheKey(parse_requested_path(fs, req.url).p, req.ae)

\* what C7 says of the second of two GETs
SecondIsHit ==
    /\ last'.resp.st = 200
    /\ last'.resp.body = last.resp.body
    /\ last'.resp.ce = last.resp.ce
    /\ KeyOf(last.req) \in DOMAIN cache_fs
    /\ ~last'.resp.tried
    /\ cache_fs' = cache_fs

\* C7 as stated: of two sequential GETs of an unchanged eligible file with the
\* same Accept-Encoding, the second has the body and the Content-Encoding of
\* the first, selects a cache entry that the first left, compresses nothing
\* and leaves the file cache as it was.
C7_SecondGetIsHit == [][RepeatedGet => SecondIsHit]_vars

\* C7 as amended: the same, provided the codec did not fail on the first
\* request (a failed compression is answered with the original and caches
\* nothing, so the next request compresses again).
C7_SecondGetIsHitUnlessCodecFailed ==
    [][RepeatedGet /\ ~(last.resp.tried /\ ~last.req.codec) => SecondIsHit]_vars

\* the second of two GETs with Accept-Encoding: gzip was served the artifact
\* the first one wrote
C7_Witness ==
    /\ last.id = 2
    /\ last.req.ae = "gzip"
    /\ last.resp.st = 200
    /\ last.resp.ce = "gzip"
    /\ ~last.resp.tried
    /\ IsFile(fs, last.resp.src)
    /\ Under(EncodedDir, last.resp.src)

\* the original file, sent with Last-Modified and without Content-Encoding
ServedOriginal(resp, data) ==
    /\ resp.st = 200
    /\ resp.body = data
    /\ resp.lm
    /\ resp.ce = ""

\* C8: a miss whose compression succeeds with a gain below the threshold
\* leaves no artifact on disk and an entry with is-compressed = false under
\* (content hash, encoding), and is answered with the original file, with
\* Last-Modified and without Content-Encoding; every later GET of the
\* unchanged file with that encoding is answered with the original and runs
\* no codec.
C8_LowGain ==
    [][/\ (/\ last'.id # last.id /\ last'.req.m = "GET"
           /\ EncodedGet(last'.req)
           /\ KeyOf(last'.req) \notin DOMAIN cache_fs
           /\ last'.req.codec
           /\ LET data == FileData(fs, parse_requested_path(fs, last'.req.url).p)
              IN GainTooLow(Len(data), Len(Compress(data, last'.req.ae))))
          => LET req_p == parse_requested_path(fs, last'.req.url).p
                 key == KeyOf(last'.req)
             IN /\ \A q \in DOMAIN fs' : Under(EncodedDir, q) => q \in DOMAIN fs \/ q = EncodedDir
                /\ key \in DOMAIN cache_fs' /\ ~cache_fs'[key].c
                /\ ServedOriginal(last'.resp, FileData(fs, req_p))
                /\ last'.resp.tried
       /\ (/\ RepeatedGet
           /\ last.resp.tried /\ last.req.codec /\ last.resp.ce = "")
          => /\ ServedOriginal(last'.resp, FileData(fs, parse_requested_path(fs, last.req.url).p))
             /\ ~last'.resp.tried
       /\ (/\ last'.id # last.id /\ last'.req.m = "GET"
           /\ EncodedGet(last'.req)
           /\ KeyOf(last'.req) \in DOMAIN cache_fs
           /\ cache_fs[KeyOf(last'.req)] =
                  [p |-> parse_requested_path(fs, last'.req.url).p, c |-> FALSE])
          => /\ ServedOriginal(last'.resp, FileData(fs, parse_requested_path(fs, last'.req.url).p))
             /\ ~last'.resp.tried
             /\ fs' = fs /\ cache_fs' = cache_fs]_vars

\* the second GET of a file that does not compress well was answered from the
\* negative entry: the original, no codec run, no artifact on disk
C8_Witness ==
    /\ last.id = 2
    /\ last.req.ae = "deflate"
    /\ ServedOriginal(last.resp, FileData(fs, parse_requested_path(fs, last.req.url).p))
    /\ ~last.resp.tried
    /\ KeyOf(last.req) \in DOMAIN cache_fs
    /\ ~cache_fs[KeyOf(last.req)].c
    /\ \A q \in DOMAIN fs : ~(Under(EncodedDir, q) /\ q # EncodedDir)

----------------------------------------------------------------------------
(* GET and HEAD of every URL, with and without a Range header, over the
   hosted tree with the symlink *)

InitGet ==
    /\ fs = InitFS
    /\ cfg \in {Config(fl, FALSE, FALSE, FALSE) : fl \in BOOLEAN}
    /\ build = [overflow_checks |-> TRUE]
    /\ cache_gen = <<>>
    /\ cache_fs = <<>>
    /\ Idle

GetRanges == {NoRange, Range("ft", 0, 0), Range("af", 1, 0), Range("last", 1, 0),
              Range("multi", 0, 0), Range("unreg", 0, 0)}

NextGet ==
    \/ \E url \in URLs, range \in GetRanges :
           Get(Request("GET", url, range, "", FALSE, <<>>, FALSE, FALSE, FALSE))
    \/ \E url \in URLs, range \in GetRanges :
           Head_(Request("HEAD", url, range, "", FALSE, <<>>, FALSE, FALSE, FALSE))

SpecGet == InitGet /\ [][NextGet]_vars

\* the branch the precedence of C11 gives a GET or HEAD
DispatchOf(req) ==
    LET r == parse_requested_path(fs, req.url)
    IN IF r.err THEN "400"
       ELSE IF ~Exists(fs, r.p) \/ (r.sk /\ ~cfg.follow_symlinks) THEN "404"
       ELSE IF IsFile(fs, r.p) /\ req.range.k # "none" THEN "range"
       ELSE IF IsFile(fs, r.p) THEN "file"
       ELSE "directory"

\* the branch a response came from, by what the client sees
BranchOf(resp) ==
    CASE resp.gen = "400 utf8" /\ resp.st = 400 -> "400"
      [] resp.gen = "404" /\ resp.st = 404 -> "404"
      [] resp.st \in {204, 206, 416} -> "range"
      [] resp.st = 200 /\ resp.gen = "" /\ resp.cr = <<>> /\ resp.lm -> "file"
      [] resp.st \in {200, 301} /\ resp.gen = "listing" -> "directory"
      [] OTHER -> "none"

\* C11: GET and HEAD dispatch by a fixed precedence: a segment that fails to
\* percent-decode gives 400 whether or not the path exists; else a nonexistent
\* path, or a symlink followed with follow_symlinks disabled, gives 404; else a
\* file with a Range header goes to the range branches; else a file gets the
\* whole-file response; else the directory branch, which ignores Range.
C11_GetPrecedence ==
    [][(last'.id # last.id /\ last'.req.m \in {"GET", "HEAD"})
       => /\ BranchOf(last'.resp) = DispatchOf(last'.req)
          /\ last'.req.m = "HEAD" => ~last'.resp.hb]_vars

\* a GET whose URL both fails to decode and resolves through the forbidden
\* symlink was answered 400
C11_Witness ==
    /\ last.req.m = "GET"
    /\ last.resp.st = 400
    /\ parse_requested_path(fs, last.req.url).err
    /\ Nonexistant(parse_requested_path(fs, last.req.url).p,
                   parse_requested_path(fs, last.req.url).sk)

----------------------------------------------------------------------------
(* Writes disabled *)

\* C12: with writes disabled every PUT and every DELETE is answered 403,
\* whatever its path, its headers and the filesystem (no PUT is accepted), and
\* no request of any method changes the hosted tree.
C12_WritesDisabled ==
    [][~cfg.writes_temp_dir =>
        /\ (last'.id # last.id /\ last'.req.m \in {"PUT", "DELETE"})
              => last'.resp.st = 403 /\ last'.resp.gen = "403"
        /\ ~put'.active
        /\ \A p \in DOMAIN fs \cup DOMAIN fs' : Under(Root, p) => SameAt(fs, fs', p)]_vars

\* a DELETE of a URL that does not decode was answered 403, and the tree is
\* the initial one
C12_Witness ==
    /\ ~cfg.writes_temp_dir
    /\ last.req.m = "DELETE"
    /\ parse_requested_path(fs, last.req.url).err
    /\ last.resp.st = 403
    /\ fs = InitFS

----------------------------------------------------------------------------
(* DELETE *)

\* C13: with writes enabled, a DELETE whose URL decodes and is not refused by
\* the symlink policy is answered 204 if its path exists, and then the path
\* and everything below it are gone (a file alone, a directory with all its
\* descendants) and every other path is as it was; it is answered 404 if its
\* path does not exist, and then nothing changes.
C13_Delete ==
    [][(/\ last'.id # last.id /\ last'.req.m = "DELETE"
        /\ cfg.writes_temp_dir
        /\ ~DecodeError(last'.req.url)
        /\ ~ThroughSymlink(last'.req.url))
       => LET req_p == parse_requested_path(fs, last'.req.url).p
          IN IF Exists(fs, req_p)
             THEN /\ last'.resp.st = 204
                  /\ \A q \in DOMAIN fs' : ~Under(req_p, q)
                  /\ \A q \in DOMAIN fs \cup DOMAIN fs' : ~Under(req_p, q) => SameAt(fs, fs', q)
                  /\ IsFile(fs, req_p) => DOMAIN fs' = DOMAIN fs \ {req_p}
             ELSE /\ last'.resp.st = 404
                  /\ fs' = fs]_vars

\* the hosted root was deleted with the file and the symlink in it; the
\* symlink's target outside is still there
C13_Witness ==
    /\ last.req.m = "DELETE"
    /\ last.req.url = <<>>
    /\ last.resp.st = 204
    /\ \A q \in DOMAIN fs : ~Under(Root, q)
    /\ IsFile(fs, Append(Out, "a"))

----------------------------------------------------------------------------
(* Directories: a hosted directory d holding every mix of files,
   subdirectories, index files and a symlink, requested with and without the
   trailing "/" *)

Dir == Append(Root, "d")

DirNames == {"A", "a", "B", "b", "index.html", "index.htm", "l"}

\* what each name of d can be
KindsOf(n) ==
    CASE n \in {"A", "a"} -> {"none", "file", "dir"}
      [] n = "B" -> {"none", "dir"}
      [] n = "l" -> {"none", "link"}
      [] OTHER -> {"none", "file"}

NodeOf(n, kind) ==
    CASE kind = "file" -> FileNode(<<Rank(n)>>)
      [] kind = "link" -> LinkNode(Out)
      [] OTHER -> DirNode

DirTree(kinds) ==
    LET base == (<<>> :> DirNode) @@ (Root :> DirNode) @@ (Out :> DirNode)
                @@ (TempBase :> DirNode) @@ (Dir :> DirNode)
                @@ (Append(Out, "a") :> FileNode(<<2, 2>>))
        inside == {Append(Dir, n) : n \in {x \in DirNames : kinds[x] # "none"}}
    IN [p \in DOMAIN base \cup inside |->
            IF p \in DOMAIN base THEN base[p] ELSE NodeOf(FileName(p), kinds[FileName(p)])]

InitDir ==
    /\ fs \in {DirTree(kinds) :
                 kinds \in {k \in [DirNames -> {"none", "file", "dir", "link"}] :
                              \A n \in DirNames : k[n] \in KindsOf(n)}}
    /\ cfg \in {Config(fl, FALSE, FALSE, ci) : fl \in BOOLEAN, ci \in BOOLEAN}
    /\ build = [overflow_checks |-> TRUE]
    /\ cache_gen = <<>>
    /\ cache_fs = <<>>
    /\ Idle

DirURLs == {<<>>, <<"d">>, <<"d", "">>}

NextDir ==
    \/ \E url \in DirURLs, tie \in BOOLEAN :
           Get(Request("GET", url, NoRange, "", FALSE, <<>>, FALSE, FALSE, tie))
    \/ \E url \in DirURLs, tie \in BOOLEAN :
           Head_(Request("HEAD", url, NoRange, "", FALSE, <<>>, FALSE, FALSE, tie))

SpecDir == InitDir /\ [][NextDir]_vars

\* the index files of directory p, in the configured order of the extensions
IndexFiles(p) ==
    SelectSeq([i \in 1..Len(INDEX_EXTENSIONS) |-> Append(p, "index." \o INDEX_EXTENSIONS[i])],
              LAMBDA q : Exists(fs, q))

\* C14: a GET of a directory is answered, if check_indices is enabled and
\* the directory holds index.<ext> for a configured extension, with the first
\* such index file when the URL ends in "/" and with 301 and Location = the
\* URL plus "/" when it does not; otherwise with the 200 directory listing.
C14_DirectoryIndex ==
    [][(/\ last'.id # last.id /\ last'.req.m = "GET"
        /\ DispatchOf(last'.req) = "directory")
       => LET req_p == parse_requested_path(fs, last'.req.url).p
              url == last'.req.url
          IN IF cfg.check_indices /\ IndexFiles(req_p) # <<>>
             THEN IF url = <<>> \/ url[Len(url)] = ""
                  THEN /\ last'.resp.st = 200
                       /\ last'.resp.gen = ""
                       /\ last'.resp.src = IndexFiles(req_p)[1]
                       /\ last'.resp.body = FileData(fs, IndexFiles(req_p)[1])
                  ELSE /\ last'.resp.st = 301
                       /\ last'.resp.loc = url \o <<"">>
             ELSE /\ last'.resp.st = 200
                  /\ last'.resp.gen = "listing"
                  /\ last'.resp.loc = <<>>]_vars

\* a GET of /d, which holds index.html and index.htm, was redirected to /d/
C14_Witness ==
    /\ cfg.check_indices
    /\ last.req.m = "GET"
    /\ last.req.url = <<"d">>
    /\ Len(IndexFiles(Dir)) = 2
    /\ last.resp.st = 301
    /\ last.resp.loc = <<"d", "">>

\* the entries a listing of directory p shows: all, less the symlinks unless
\* follow_symlinks
Listed(p) ==
    {q \in DOMAIN fs : /\ Len(q) = Len(p) + 1 /\ Under(p, q)
                       /\ (cfg.follow_symlinks \/ ~IsLink(fs, q))}

\* lhs sorts at or before rhs by (is_file, lowercased name)
AtOrBefore(lhs, rhs) ==
    \/ ~lhs[2] /\ rhs[2]
    \/ lhs[2] = rhs[2] /\ Rank(to_lowercase(lhs[1])) <= Rank(to_lowercase(rhs[1]))

\* C15: the rows of a directory listing are in the order of the key (is_file,
\* lowercased name): no file precedes a non-file, within each group the names
\* ascend case-insensitively, and every listed entry of the directory has
\* exactly one row.
C15_ListingOrder ==
    [][(last'.id # last.id /\ last'.resp.gen = "listing")
       => LET rows == last'.resp.rows
              req_p == parse_requested_path(fs, last'.req.url).p
          IN /\ \A i \in 1..Len(rows), j \in 1..Len(rows) :
                    i < j => /\ AtOrBefore(rows[i], rows[j])
                             /\ ~(rows[i][2] /\ ~rows[j][2])
                             /\ rows[i][1] # rows[j][1]
             /\ {Append(req_p, rows[i][1]) : i \in 1..Len(rows)} = Listed(req_p)
             /\ \A i \in 1..Len(rows) : rows[i][2] = IsFile(fs, Append(req_p, rows[i][1]))]_vars

\* a listing of d with the subdirectory B ahead of the files A and a, whose
\* keys are equal
C15_Witness ==
    /\ last.resp.gen = "listing"
    /\ Len(last.resp.rows) >= 3
    /\ last.resp.rows[1] = <<"B", FALSE>>
    /\ last.resp.rows[2] = <<"a", TRUE>>
    /\ last.resp.rows[3] = <<"A", TRUE>>

\* hndlr.clone(): one more handler
CloneHandler ==
    /\ Len(other) < MaxClones
    /\ other' = Append(other, Clone(Len(other) + 1))
    /\ UNCHANGED <<fs, cfg, build, cache_gen, cache_fs, put, last, nreq, flight, poisoned,
                   current, listen, aside>>

\* the next request arrives at the i-th of the other handlers: that one is
\* `self` from now on
Switch(i) ==
    /\ i \in 1..Len(other)
    /\ ~put.active
    /\ cfg' = other[i].cfg
    /\ cache_gen' = other[i].cache_gen
    /\ cache_fs' = other[i].cache_fs
    /\ current' = other[i].id
    /\ other' = [other EXCEPT ![i] = Handler(current, cfg, cache_gen, cache_fs)]
    /\ UNCHANGED <<fs, build, put, last, nreq, flight, poisoned, listen, aside>>

----------------------------------------------------------------------------
(* try_ports called with every range of ports, every outcome of binding each
   port, in a debug and in a release build *)

InitPorts ==
    /\ fs = InitFS
    /\ cfg = Config(FALSE, FALSE, FALSE, FALSE)
    /\ build \in {[overflow_checks |-> c] : c \in BOOLEAN}
    /\ cache_gen = <<>>
    /\ cache_fs = <<>>
    /\ put = NoPut
    /\ last = NoLast
    /\ nreq = 0
    /\ flight = <<>>
    /\ poisoned = FALSE
    /\ current = 0
    /\ other = <<>>
    /\ parked = NoPut
    /\ walk = NoWalk
    /\ listen \in {[NoListen EXCEPT !.from = from, !.up_to = up_to, !.port = from, !.bind = b] :
                     from \in Ports, up_to \in Ports, b \in [Ports -> BindOutcomes]}

NextPorts ==
    \/ TryPortsOverflow
    \/ TryPort
    \/ TryPortsExhausted

SpecPorts == InitPorts /\ [][NextPorts]_vars

\* C16: try_ports tries the ports from, from + 1, ... up to up_to, each at
\* most once; it returns the listener of the first port that binds, having
\* tried no later port; it returns the start error at the first bind error
\* whose message does not name a port; it returns 'no free ports' when every
\* port of the range failed with a port error; and it does return.
C16_TryPorts ==
    LET n == Len(listen.attempts)
        outcome(i) == listen.bind[listen.attempts[i]]
    IN /\ \A i \in 1..n : listen.attempts[i] = listen.from + i - 1
       /\ \A i \in 1..n : listen.attempts[i] <= listen.up_to
       /\ \A i \in 1..(n - 1) : outcome(i) = "port"
       /\ listen.result = "" => (n > 0 => outcome(n) = "port")
       /\ listen.result = "listening" => n > 0 /\ outcome(n) = "ok"
       /\ listen.result = "start" => n > 0 /\ outcome(n) = "other"
       /\ listen.result = "no free ports"
             => /\ n = Cardinality(listen.from..listen.up_to)
                /\ \A i \in 1..n : outcome(i) = "port"
       /\ listen.result # "panic"

\* C17: whatever the method, the path and the headers, a request the server
\* reads to its end is answered: it never ends in a fault.  (A PUT whose body
\* stops arriving is the connection failing, not an input.)
C17_NoFault ==
    [][(/\ last'.id # last.id
        /\ ~(put.active /\ put.rest # <<>> /\ last'.id = put.id))
          => last'.resp.st # 0]_vars

\* the step answers a GET on whose way the codec was run and failed
CodecFailed ==
    /\ last'.id # last.id
    /\ last'.req.m = "GET"
    /\ last'.resp.tried
    /\ ~last'.req.codec

\* C19: when the codec fails, the request is answered all the same, with the
\* status and the body it would have had without an Accept-Encoding and with
\* no Content-Encoding, and neither cache gains or changes an entry.
C19_CodecFailure ==
    [][CodecFailed =>
          LET plain == handle_get([last'.req EXCEPT !.ae = ""]).resp
          IN /\ last'.resp.st # 0
             /\ last'.resp.st = plain.st
             /\ last'.resp.body = plain.body
             /\ last'.resp.ce = ""
             /\ last'.resp = [plain EXCEPT !.tried = TRUE]
             /\ cache_gen' = cache_gen
             /\ cache_fs' = cache_fs]_vars

\* a file's compression failed while the file cache held an entry
C19_Witness ==
    /\ last.resp.tried /\ ~last.req.codec
    /\ last.resp.st = 200 /\ last.resp.body # <<>>
    /\ cache_fs # <<>>

----------------------------------------------------------------------------
(* Clones: a handler with encoding enabled is cloned at any time, and requests
   arrive at the original and at the clones *)

InitClone ==
    /\ fs \in {[InitFS EXCEPT ![Append(Root, "a")] = FileNode(d)] : d \in {<<1, 1, 1>>, <<1, 2, 1>>}}
    /\ cfg \in {Config(fl, FALSE, TRUE, FALSE) : fl \in BOOLEAN}
    /\ build = [overflow_checks |-> TRUE]
    /\ cache_gen = <<>>
    /\ cache_fs = <<>>
    /\ Idle

CloneURLs == {<<"a">>, <<"b">>}

NextClone ==
    \/ \E url \in CloneURLs, ae \in SupportedEncodings :
           Get(Request("GET", url, NoRange, ae, TRUE, <<>>, FALSE, FALSE, FALSE))
    \/ CloneHandler
    \/ \E i \in 1..MaxClones : Switch(i)

SpecClone == InitClone /\ [][NextClone]_vars

\* C20: the clone of a handler has the handler's configuration and two empty
\* caches, and cloning leaves the handler's own caches (and every other
\* handler) as they were; an insertion a request makes into the caches of the
\* handler that serves it shows in no other handler.
C20_Clone ==
    [][/\ Len(other') = Len(other) + 1
          => /\ other'[Len(other')].cfg = cfg
             /\ other'[Len(other')].cache_gen = <<>>
             /\ other'[Len(other')].cache_fs = <<>>
             /\ cfg' = cfg /\ cache_gen' = cache_gen /\ cache_fs' = cache_fs
             /\ \A i \in 1..Len(other) : other'[i] = other[i]
       /\ last'.id # last.id => other' = other]_vars

\* the clone serves and has cached a file; the original, cloned after it had
\* cached one, holds another entry and the clone's is not in it
C20_Witness ==
    /\ current = 1
    /\ cache_fs # <<>>
    /\ Len(other) = 1 /\ other[1].id = 0
    /\ other[1].cache_fs # <<>>
    /\ DOMAIN cache_fs \cap DOMAIN other[1].cache_fs = {}

----------------------------------------------------------------------------
(* Requests served at the same time: handle_get_file_encoded and
   handle_generated_response_encoding step by step, from the cache miss to
   the response.  Each step is what one thread does between two points where
   another can run: the cache lookup (under the read lock), the codec, the
   reading of the artifact's size, the insertion (under the write lock). *)

\* a request inside one of the two encoding handlers: its number, its
\* cache key, where it is, and (for a generated page) the page
Flying(id, req, req_p, resp_p, key, pc, plain) ==
    [req |-> req, key |-> key, plain |-> plain, req_p |-> req_p, resp_p |-> resp_p,
     id |-> id, pc |-> pc]

RemoveAt(s, i) == SubSeq(s, 1, i - 1) \o SubSeq(s, i + 1, Len(s))

\* a request leaves the handler with the result res
Leave(i, res) ==
    /\ Complete(flight[i].id, flight[i].req, res)
    /\ flight' = RemoveAt(flight, i)
    /\ UNCHANGED <<put, nreq>>

\* a step inside the handler that changes only the filesystem and the
\* request's position
Advance(i, f, pc) ==
    /\ fs' = f
    /\ flight' = [flight EXCEPT ![i].pc = pc]
    /\ UNCHANGED <<cfg, build, cache_gen, cache_fs, put, last, nreq, aux>>

\* handle_get_file_encoded up to the cache miss
EncBegin(req) ==
    /\ nreq < MaxReqs
    /\ EncodedGet(req) = TRUE
    /\ ~poisoned
    /\ KeyOf(req) \notin DOMAIN cache_fs
    /\ nreq' = nreq + 1
    /\ fs' = create_temp_dir(fs, EncodedDir)
    /\ \E req_p \in {parse_requested_path(fs, req.url).p}, key \in {KeyOf(req)} :
          flight' = Append(flight,
                           Flying(nreq + 1, req, req_p,
                                  ArtifactPath(key[1], extension(req_p), key[2]),
                                  key, "encode", Resp0))
    /\ UNCHANGED <<cfg, build, cache_gen, cache_fs, put, last, aux>>

\* encode_file(&req_p, &resp_p, &encoding)
EncEncode(i) ==
    /\ i \in 1..Len(flight)
    /\ flight[i].pc = "encode"
    /\ \E r \in {flight[i]} :
          IF r.req.codec /\ CanWrite(fs, r.resp_p)
          THEN Advance(i, WriteFile(fs, r.resp_p, Compress(FileData(fs, r.req_p), r.key[2])),
                       "encoded")
          ELSE Leave(i, EncodeFailed(r.req_p, fs, r.key))

\* gain: req_p.metadata().unwrap().len() / resp_p.metadata().unwrap().len()
EncGain(i) ==
    /\ i \in 1..Len(flight)
    /\ flight[i].pc = "encoded"
    /\ \E r \in {flight[i]} :
          IF ~IsFile(fs, r.resp_p) THEN Leave(i, Unchanged(Fault))
          ELSE Advance(i, fs, IF GainTooLow(FileLen(fs, r.req_p), FileLen(fs, r.resp_p))
                              THEN "negative" ELSE "positive")

\* the gain is too low: cache_fs.write().unwrap(), the negative entry,
\* fs::remove_file(resp_p).unwrap() with the lock held, the original as the
\* response
InsertNegative(i) ==
    \E r \in {flight[i]} :
       \E cache \in {CacheInsert(cache_fs, r.key, NegativeEntry(r.req_p, r.resp_p))} :
          IF poisoned THEN Leave(i, Unchanged(Fault))
          ELSE IF IsFile(fs, r.resp_p)
          THEN Leave(i, Tried(Identity(r.req_p, RemoveFile(fs, r.resp_p), cache)))
          ELSE /\ last' = [resp |-> Fault, req |-> r.req, id |-> r.id]
               /\ cache_fs' = cache
               /\ poisoned' = TRUE
               /\ flight' = RemoveAt(flight, i)
               /\ UNCHANGED <<fs, cfg, build, cache_gen, put, nreq, current, other, listen,
                              aside>>

\* a request whose gain is too low takes the write lock and inserts, in one step
EncInsertNegative(i) ==
    /\ i \in 1..Len(flight)
    /\ flight[i].pc = "negative"
    /\ InsertNegative(i)

\* the gain is high enough: cache_fs.write().unwrap(), the positive entry, the
\* artifact as the response
InsertPositive(i) ==
    \E r \in {flight[i]} :
          IF poisoned \/ ~IsFile(fs, r.resp_p) THEN Leave(i, Unchanged(Fault))
          ELSE Leave(i, Result([Resp0 EXCEPT !.st = 200, !.body = FileData(fs, r.resp_p),
                                             !.hb = TRUE, !.ce = r.key[2], !.src = r.resp_p,
                                             !.tried = TRUE],
                               fs, cache_gen,
                               CacheInsert(cache_fs, r.key, [p |-> r.resp_p, c |-> TRUE])))

\* a request whose gain is high enough takes the write lock and inserts, in one
\* step
EncInsertPositive(i) ==
    /\ i \in 1..Len(flight)
    /\ flight[i].pc = "positive"
    /\ InsertPositive(i)

\* the page that answers req when it asks for no encoding
html_page(req) == handle_get([req EXCEPT !.ae = ""]).resp.body

\* a GET answered by a generated page: handle_generated_response_encoding up
\* to the cache miss
GenBegin(req) ==
    /\ nreq < MaxReqs
    /\ req.m = "GET"
    /\ response_encoding(req.ae) # <<>>
    /\ \E res \in {handle_get([req EXCEPT !.ae = ""])}, key \in {<<html_page(req), req.ae>>} :
          /\ res.resp.gen # ""
          /\ res.fs = fs
          /\ key \notin DOMAIN cache_gen
          /\ flight' = Append(flight, Flying(nreq + 1, req, <<>>, <<>>, key, "gen", res.resp))
    /\ nreq' = nreq + 1
    /\ UNCHANGED <<fs, cfg, build, cache_gen, cache_fs, put, last, aux>>

\* encode_str, then cache_gen.write().unwrap(), the insertion and the response
GenFinish(i) ==
    /\ i \in 1..Len(flight)
    /\ flight[i].pc = "gen"
    /\ \E r \in {flight[i]} :
       \E cache \in {CacheInsert(cache_gen, r.key, Compress(r.plain.body, r.key[2]))} :
          IF r.req.codec
          THEN Leave(i, Result([r.plain EXCEPT !.body = cache[r.key], !.ce = r.key[2],
                                               !.tried = TRUE],
                               fs, cache, cache_fs))
          ELSE Leave(i, Unchanged([r.plain EXCEPT !.tried = TRUE]))

InitRace ==
    /\ fs \in {[InitFS EXCEPT ![Append(Root, "a")] = FileNode(d)] : d \in SeqsUpTo(Bytes, MaxLen)}
    /\ cfg = Config(FALSE, FALSE, TRUE, FALSE)
    /\ build = [overflow_checks |-> TRUE]
    /\ cache_gen = <<>>
    /\ cache_fs = <<>>
    /\ Idle

RaceURLs == {<<"a">>, <<"b">>}

NextRace ==
    \/ \E url \in RaceURLs, ae \in SupportedEncodings, codec \in BOOLEAN :
           \/ EncBegin(Request("GET", url, NoRange, ae, codec, <<>>, FALSE, FALSE, FALSE))
           \/ GenBegin(Request("GET", url, NoRange, ae, codec, <<>>, FALSE, FALSE, FALSE))
    \/ \E i \in 1..MaxReqs :
           \/ EncEncode(i)
           \/ EncGain(i)
           \/ EncInsertNegative(i)
           \/ EncInsertPositive(i)
           \/ GenFinish(i)

SpecRace == InitRace /\ [][NextRace]_vars

\* the response is one a request r gets when it is alone: the status, and
\* the body either as it is or compressed and labelled
ValidResponse(resp, r) ==
    LET enc == r.key[2]
        st == IF r.pc = "gen" THEN r.plain.st ELSE 200
        data == IF r.pc = "gen" THEN r.plain.body ELSE FileData(fs, r.req_p)
    IN /\ resp.st = st
       /\ \/ resp.ce = "" /\ resp.body = data
          \/ resp.ce = enc /\ resp.body = Compress(data, enc)

\* the cache holds for r's key what r inserts when it is alone
SingleMissEntry(cg, cf, r) ==
    LET enc == r.key[2]
        data == FileData(fs, r.req_p)
    IN IF r.pc = "gen"
       THEN r.key \in DOMAIN cg /\ cg[r.key] = Compress(r.plain.body, enc)
       ELSE /\ r.key \in DOMAIN cf
            /\ cf[r.key] = IF GainTooLow(Len(data), Len(Compress(data, enc)))
                           THEN NegativeEntry(r.req_p, r.resp_p)
                           ELSE [p |-> r.resp_p, c |-> TRUE]

\* C18: requests that miss the same key of cache_gen or cache_fs at the same
\* time may each run the codec; each of them is answered with a valid
\* response, and the cache is left with the entry a single miss inserts.
C18_ConcurrentMisses ==
    [][\A i \in 1..Len(flight) :
          (last'.id # last.id /\ last'.id = flight[i].id)
             => /\ ValidResponse(last'.resp, flight[i])
                /\ flight[i].req.codec
                      => SingleMissEntry(cache_gen', cache_fs', flight[i])]_vars

----------------------------------------------------------------------------
(* HEAD beside GET: a file and a missing path, with and without a Range and
   an Accept-Encoding, encoding enabled *)

InitHead ==
    /\ fs \in {[InitFS EXCEPT ![Append(Root, "a")] = FileNode(d)] : d \in {<<1, 1, 1>>, <<1, 2>>}}
    /\ cfg = Config(FALSE, FALSE, TRUE, FALSE)
    /\ build = [overflow_checks |-> TRUE]
    /\ cache_gen = <<>>
    /\ cache_fs = <<>>
    /\ Idle

HeadURLs == {<<"a">>, <<"b">>}
HeadRanges == {NoRange, Range("af", 1, 0)}

NextHead ==
    \/ \E url \in HeadURLs, range \in HeadRanges, ae \in {"", "gzip"}, codec \in BOOLEAN :
           Get(Request("GET", url, range, ae, codec, <<>>, FALSE, FALSE, FALSE))
    \/ \E url \in HeadURLs, range \in HeadRanges, ae \in {"", "gzip"}, codec \in BOOLEAN :
           Head_(Request("HEAD", url, range, ae, codec, <<>>, FALSE, FALSE, FALSE))

SpecHead == InitHead /\ [][NextHead]_vars

\* C21: a HEAD is answered with the status and the headers of the GET of the
\* same request in the same state and with no body, and it leaves the caches
\* and the filesystem (the encoded temp dir in it) as that GET leaves them.
C21_HeadIsGet ==
    [][(last'.id # last.id /\ last'.req.m = "HEAD")
          => LET get == handle_get([last'.req EXCEPT !.m = "GET"])
             IN /\ last'.resp = [get.resp EXCEPT !.body = <<>>, !.hb = FALSE]
                /\ ~last'.resp.hb
                /\ fs' = get.fs
                /\ cache_gen' = get.cg
                /\ cache_fs' = get.cf]_vars

\* a HEAD compressed a file: it is answered 200 with Content-Encoding and no
\* body, and the artifact is in the file cache
C21_Witness ==
    /\ last.req.m = "HEAD"
    /\ last.resp.st = 200 /\ last.resp.ce = "gzip" /\ last.resp.tried
    /\ ~last.resp.hb /\ last.resp.body = <<>>
    /\ cache_fs # <<>>

----------------------------------------------------------------------------
\* C22: every 206 response carries Content-Range first-last/L with
\* first <= last < L, L the length of the file, and its body is the
\* last - first + 1 bytes of the file from first to last.
C22_PartialContent ==
    LET data == FileData(fs, RangeFile)
        cr == last.resp.cr
    IN last.resp.st = 206
       => /\ Len(cr) = 3
          /\ cr[3] = Len(data)
          /\ cr[1] <= cr[2] /\ cr[2] < cr[3]
          /\ Len(last.resp.body) = cr[2] - cr[1] + 1
          /\ last.resp.body = Slice(data, cr[1], cr[2])

----------------------------------------------------------------------------
(* Index files: the directory d with index.html and index.htm present or not,
   requested as /d/, as /d and by the URLs of the index files themselves, with
   and without a Range header *)

InitIndex ==
    /\ fs \in {DirTree(kinds) :
                 kinds \in {k \in [DirNames -> {"none", "file"}] :
                              \A n \in DirNames : n \notin {"index.html", "index.htm", "a"}
                                                     => k[n] = "none"}}
    /\ cfg \in {Config(FALSE, FALSE, FALSE, ci) : ci \in BOOLEAN}
    /\ build = [overflow_checks |-> TRUE]
    /\ cache_gen = <<>>
    /\ cache_fs = <<>>
    /\ Idle

IndexURLs == {<<"d">>, <<"d", "">>, <<"d", "index.html">>, <<"d", "index.htm">>}
IndexRanges == {NoRange, Range("ft", 0, 0), Range("af", 0, 0), Range("multi", 0, 0)}

NextIndex ==
    \E url \in IndexURLs, range \in IndexRanges :
        Get(Request("GET", url, range, "", FALSE, <<>>, FALSE, FALSE, FALSE))

SpecIndex == InitIndex /\ [][NextIndex]_vars

\* the URL of the file p of the hosted tree
URLOf(p) == SubSeq(p, Len(Root) + 1, Len(p))

\* the step answers a GET of a directory, by a URL ending in "/", with the
\* directory's index file
ServesIndex ==
    /\ last'.id # last.id
    /\ last'.req.m = "GET"
    /\ DispatchOf(last'.req) = "directory"
    /\ cfg.check_indices
    /\ IndexFiles(parse_requested_path(fs, last'.req.url).p) # <<>>
    /\ TrailingSlash(last'.req.url)

\* C23: a directory URL ending in "/" that is answered with the index file
\* gets the response a GET of the index file's own URL gets in the same
\* state with the same headers, a Range header included.
C23_IndexAsRequested ==
    [][ServesIndex
          => LET idx == IndexFiles(parse_requested_path(fs, last'.req.url).p)[1]
                 direct == handle_get([last'.req EXCEPT !.url = URLOf(idx)])
             IN last'.resp = direct.resp]_vars

----------------------------------------------------------------------------
\* C24: for every from <= up_to, up_to the largest port included, try_ports
\* has tried, when it returns, the ports from, from + 1, ... up to the first
\* one that binds (or fails with an error that is not about the port) or up
\* to up_to: computing the upper bound neither overflows nor empties the range.
C24_InclusiveRange ==
    LET n == Len(listen.attempts)
    IN (listen.from <= listen.up_to /\ listen.result # "")
          => /\ listen.result # "panic"
             /\ n >= 1
             /\ \A i \in 1..n : listen.attempts[i] = listen.from + i - 1
             /\ \/ listen.bind[listen.attempts[n]] # "port"
                \/ listen.attempts[n] = listen.up_to

----------------------------------------------------------------------------
\* the segments of url that decode
Decodable(url) == SelectSeq(url, LAMBDA s : percent_decode(s) # <<>>)

\* C25: a segment that fails to decode is left out of the path and the
\* segments after it are resolved as if it were not there; the decode-error
\* flag is true iff some segment failed to decode, whatever follows it (so a
\* GET of such a URL is answered 400).
C25_StickyDecodeError ==
    /\ \A url \in URLs :
          LET r == parse_requested_path(fs, url)
              rest == parse_requested_path(fs, Decodable(url))
          IN /\ r.err = (\E i \in 1..Len(url) : percent_decode(url[i]) = <<>>)
             /\ r.p = rest.p
             /\ r.sk = rest.sk
             /\ ~rest.err
    /\ (last.req.m = "GET" /\ Decodable(last.req.url) # last.req.url) => last.resp.st = 400

\* a GET whose first segment fails to decode and whose second names a file
\* that exists was answered
C25_Witness ==
    /\ last.req.m = "GET"
    /\ last.req.url = <<"%FF", "a">>
    /\ last.resp.st = 400
    /\ IsFile(fs, parse_requested_path(fs, last.req.url).p)
    /\ parse_requested_path(fs, last.req.url).p = Append(Root, "a")

----------------------------------------------------------------------------
(* parse_requested_path step by step, over trees whose symlinks form chains
   of several hops, broken links and cycles *)

\* the fold starts: (hosted_directory, false, false) and the non-empty segments
StartWalk(url) ==
    [NoWalk EXCEPT !.cur = Root, !.segs = SelectSeq(url, LAMBDA s : s # ""), !.url = url,
                   !.pc = IF SelectSeq(url, LAMBDA s : s # "") = <<>> THEN "done" ELSE "push"]

\* the body of the fold up to the loop: cur.push of the decoded segment, or
\* err = true
WalkPush ==
    /\ walk.pc = "push"
    /\ \E d \in {percent_decode(Head(walk.segs))} :
          walk' = [walk EXCEPT !.cur = IF d # <<>> THEN Append(@, d[1]) ELSE @,
                               !.err = @ \/ d = <<>>,
                               !.segs = Tail(@),
                               !.pc = "link"]
    /\ UNCHANGED <<fs, cfg, build, cache_gen, cache_fs, put, last, nreq, flight, poisoned,
                   current, other, listen, parked>>

\* WalkNext that leaves the loop after one hop
WalkNext_OneHop ==
    /\ walk.pc = "link"
    /\ ~IsLink(fs, walk.cur) \/ walk.hopped
    /\ walk' = [walk EXCEPT !.pc = IF walk.segs = <<>> THEN "done" ELSE "push",
                         !.hopped = FALSE]
    /\ UNCHANGED <<fs, cfg, build, cache_gen, cache_fs, put, last, nreq, flight, poisoned,
                   current, other, listen, parked>>

\* one turn of `while let Ok(newlink) = cur.read_link()`: cur names a symlink
WalkHop ==
    /\ walk.pc = "link"
    /\ IsLink(fs, walk.cur)
    /\ walk' = [walk EXCEPT !.cur = fs[walk.cur].t, !.sk = TRUE, !.hopped = TRUE]
    /\ UNCHANGED <<fs, cfg, build, cache_gen, cache_fs, put, last, nreq, flight, poisoned,
                   current, other, listen, parked>>

\* read_link fails (cur is no symlink, or does not exist): the loop ends and
\* the fold goes on to the next segment, or returns
WalkNext ==
    /\ walk.pc = "link"
    /\ ~IsLink(fs, walk.cur)
    /\ walk' = [walk EXCEPT !.pc = IF walk.segs = <<>> THEN "done" ELSE "push",
                         !.hopped = FALSE]
    /\ UNCHANGED <<fs, cfg, build, cache_gen, cache_fs, put, last, nreq, flight, poisoned,
                   current, other, listen, parked>>

\* the names of the hosted directory in these trees: two symlinks, a file
WalkTargets == {Append(Root, "a"), Append(Root, "k"), Append(Root, "l"), Append(Root, "x"), Out}

WalkTree(t1, t2) ==
    (<<>> :> DirNode) @@ (Root :> DirNode) @@ (Out :> DirNode) @@ (TempBase :> DirNode)
    @@ (Append(Root, "a") :> FileNode(<<2>>))
    @@ (Append(Root, "l") :> LinkNode(t1))
    @@ (Append(Root, "k") :> LinkNode(t2))
    @@ (Append(Out, "a") :> FileNode(<<2, 2>>))

WalkSegs == {"a", "k", "l", "%FF"}
WalkURLs == {<<s>> : s \in WalkSegs} \cup {<<s, t>> : s \in WalkSegs, t \in WalkSegs}

InitWalk ==
    /\ fs \in {WalkTree(t1, t2) : t1 \in WalkTargets, t2 \in WalkTargets}
    /\ cfg = Config(FALSE, FALSE, FALSE, FALSE)
    /\ build = [overflow_checks |-> TRUE]
    /\ cache_gen = <<>>
    /\ cache_fs = <<>>
    /\ put = NoPut /\ last = NoLast /\ nreq = 0 /\ flight = <<>>
    /\ poisoned = FALSE /\ current = 0 /\ other = <<>> /\ listen = NoListen
    /\ parked = NoPut
    /\ walk \in {StartWalk(url) : url \in WalkURLs}

NextWalk ==
    \/ WalkPush
    \/ WalkHop
    \/ WalkNext

\* the thread that resolves the path keeps running
SpecWalk == InitWalk /\ [][NextWalk]_vars /\ WF_vars(NextWalk)

\* p is a symlink on a cycle of symlinks
RECURSIVE Returns(_, _, _)
Returns(p, q, n) ==
    IF n = 0 \/ ~IsLink(fs, q) THEN FALSE
    ELSE fs[q].t = p \/ Returns(p, fs[q].t, n - 1)

OnCycle(p) == Returns(p, p, Cardinality(DOMAIN fs))

\* C26: resolution ends unless it reaches a cyclic chain of symlinks; the
\* fold goes on to the next segment (or returns) only at a path that is not a
\* symlink, that is after every hop of a chain and also at a broken link;
\* followed_symlink is true iff a hop was followed in some segment, and the
\* result is that of the fold.
C26_Resolution ==
    /\ <>(walk.pc = "done" \/ OnCycle(walk.cur))
    /\ [][walk'.pc \in {"push", "done"} => ~IsLink(fs, walk.cur)]_vars
    /\ [][walk'.sk = (walk.sk \/ (walk.pc = "link" /\ IsLink(fs, walk.cur)))]_vars
    /\ [](walk.pc = "done"
            => /\ walk.cur = parse_requested_path(fs, walk.url).p
               /\ walk.sk = parse_requested_path(fs, walk.url).sk
               /\ walk.err = parse_requested_path(fs, walk.url).err)

\* a chain of two hops was followed to a file that exists, before the
\* resolution went on and ended
C26_Witness ==
    /\ walk.pc = "done"
    /\ walk.url = <<"l">>
    /\ fs[Append(Root, "l")].t = Append(Root, "k")
    /\ fs[Append(Root, "k")].t = Append(Root, "a")
    /\ walk.cur = Append(Root, "a")
    /\ walk.sk

----------------------------------------------------------------------------
(* Requests served at the same time, and one more GET once they have all
   been answered *)

\* a GET that arrives after MaxReqs requests have been answered
LaterGet(req) ==
    /\ nreq = MaxReqs
    /\ flight = <<>>
    /\ Complete(nreq + 1, req, handle_get(req))
    /\ nreq' = nreq + 1
    /\ UNCHANGED <<put, flight>>

NextLater ==
    \/ NextRace
    \/ \E url \in RaceURLs, ae \in SupportedEncodings :
           LaterGet(Request("GET", url, NoRange, ae, TRUE, <<>>, FALSE, FALSE, FALSE))

SpecLater == InitRace /\ [][NextLater]_vars

\* C27: whatever happened to the requests before it, faults included, a later
\* request to the same handler is answered: a fault raised with the write
\* lock of the file cache held does not make the cache unusable.
C27_FaultConfined ==
    [][(last'.id # last.id /\ last'.id = MaxReqs + 1) => last'.resp.st # 0]_vars

----------------------------------------------------------------------------
(* The encoding cache across PUT and DELETE: the requests of SpecEnc, and one
   more GET once they have been answered *)

NextNegative ==
    \/ NextEnc
    \/ \E url \in EncURLs, ae \in SupportedEncodings :
           LaterGet(Request("GET", url, NoRange, ae, TRUE, <<>>, FALSE, FALSE, FALSE))

SpecNegative == InitEnc /\ [][NextNegative]_vars

\* the step answers a GET of a file from a negative entry of the file cache
NegativeHit ==
    /\ last'.id # last.id
    /\ EncodedGet(last'.req)
    /\ KeyOf(last'.req) \in DOMAIN cache_fs
    /\ ~cache_fs[KeyOf(last'.req)].c

\* C28: a GET of a file f that hits a negative entry of the file cache is
\* answered with f's own current bytes, whichever file the entry was recorded
\* for and whatever was done to that file since.
C28_NegativeHitServesFile ==
    [][NegativeHit
          => /\ last'.resp.st = 200
             /\ last'.resp.ce = ""
             /\ last'.resp.body = FileData(fs, parse_requested_path(fs, last'.req.url).p)]_vars

----------------------------------------------------------------------------
(* Two PUTs at once: each is a thread inside handle_put_file; put is the one
   that takes the next step, parked the other *)

\* the scheduler turns to the other PUT
SwitchPut ==
    /\ put.active \/ parked.active
    /\ put' = parked
    /\ parked' = put
    /\ UNCHANGED <<fs, cfg, build, cache_gen, cache_fs, last, nreq, flight, poisoned,
                   current, other, listen, walk>>

InitStaging ==
    /\ fs = InitFS
    /\ cfg = Config(FALSE, TRUE, FALSE, FALSE)
    /\ build = [overflow_checks |-> TRUE]
    /\ cache_gen = <<>>
    /\ cache_fs = <<>>
    /\ Idle

\* destinations: two with the final segment "a", one with another
StagingURLs == {<<"a">>, <<"d", "a">>, <<"b">>}

StagingBodies == {<<1>>, <<2>>, <<1, 2>>}

NextStaging ==
    \/ \E url \in StagingURLs, body \in StagingBodies :
           PutBegin(Request("PUT", url, NoRange, "", FALSE, body, FALSE, TRUE, FALSE))
    \/ PutStream
    \/ PutFinish
    \/ SwitchPut

SpecStaging == InitStaging /\ [][NextStaging]_vars

\* the step completes the second of two PUTs that ran at once, to different
\* destinations, both accepted
BothPutsDone ==
    /\ last'.id # last.id
    /\ last.id # 0
    /\ put' = NoPut /\ parked = NoPut
    /\ last.resp.st \in {201, 204} /\ last'.resp.st \in {201, 204}
    /\ last.req.url # last'.req.url

\* C29: after two concurrent accepted PUTs to different destinations have both
\* completed, each destination holds exactly the body of its own request.
C29_PutsDoNotInterfere ==
    [][BothPutsDone
          => /\ FileData(fs', parse_requested_path(fs', last.req.url).p) = last.req.body
             /\ FileData(fs', parse_requested_path(fs', last'.req.url).p) = last'.req.body]_vars

----------------------------------------------------------------------------
\* C30: the hosted root directory exists in every reachable state: no request,
\* DELETE of the URL "/" with writes enabled included, removes it.
C30_RootExists == IsDir(fs, Root)

----------------------------------------------------------------------------
(* The cache locks.  cache_fs and cache_gen are RwLocks; a guard is held from
   the call of read() or write() to the end of the scope it is a temporary or
   a binding of.  The steps of the two encoding handlers are taken apart at
   each lock call: a request waits for the lock, holds it, and lets it go when
   the scope ends, the handler returns or the thread unwinds from a panic.
   The lock admits a reader when no writer holds it and a writer when nobody
   holds it; which waiter goes first is left open. *)

\* the cache a request inside an encoding handler works on
CacheOf(r) == IF r.plain.gen # "" THEN "gen" ELSE "fs"

\* HoldsRead if the read guard were bound for the rest of the handler
HoldsRead_UntilReturn(r) == r.pc # "read"

\* the read guard is a temporary of the match / if-let that looks the key up:
\* it is dropped where that statement ends
HoldsRead(r) == r.pc = "reading"

\* the write guard `cache`: from write() to the end of its block or the return
HoldsWrite(r) == r.pc \in {"writing_negative", "writing_positive", "writing"}

Readers(c) == {i \in 1..Len(flight) : CacheOf(flight[i]) = c /\ HoldsRead(flight[i])}

Writers(c) == {i \in 1..Len(flight) : CacheOf(flight[i]) = c /\ HoldsWrite(flight[i])}

\* a GET with an encoding to apply enters handle_get_file_encoded (the
\* temporary directory, the cache key) or handle_generated_response_encoding
\* (the cache key) and is about to call read()
LockArrive(req) ==
    /\ nreq < MaxReqs
    /\ req.m = "GET"
    /\ response_encoding(req.ae) # <<>>
    /\ nreq' = nreq + 1
    /\ IF EncodedGet(req) = TRUE
       THEN /\ fs' = create_temp_dir(fs, EncodedDir)
            /\ \E req_p \in {parse_requested_path(fs, req.url).p}, key \in {KeyOf(req)} :
                  flight' = Append(flight,
                                   Flying(nreq + 1, req, req_p,
                                          ArtifactPath(key[1], extension(req_p), key[2]),
                                          key, "read", Resp0))
       ELSE \E res \in {handle_get([req EXCEPT !.ae = ""])} :
               /\ res.resp.gen # ""
               /\ res.fs = fs
               /\ fs' = fs
               /\ flight' = Append(flight,
                                   Flying(nreq + 1, req, <<>>, <<>>,
                                          <<res.resp.body, req.ae>>, "read", res.resp))
    /\ UNCHANGED <<cfg, build, cache_gen, cache_fs, put, last, aux>>

\* cache.read(): granted when no writer holds the lock
LockRead(i) ==
    /\ i \in 1..Len(flight)
    /\ flight[i].pc = "read"
    /\ Writers(CacheOf(flight[i])) = {}
    /\ Advance(i, fs, "reading")

\* .unwrap().get(&cache_key) under the read guard: a poisoned lock panics, a
\* hit returns the cached response, a miss goes on to the codec; the guard is
\* dropped in each case
Lookup(i) ==
    /\ i \in 1..Len(flight)
    /\ flight[i].pc = "reading"
    /\ \E r \in {flight[i]} :
          IF CacheOf(r) = "fs"
          THEN IF poisoned \/ r.key \in DOMAIN cache_fs
               THEN Leave(i, handle_get_file_encoded(r.req, r.req_p))
               ELSE Advance(i, fs, "encode")
          ELSE IF r.key \in DOMAIN cache_gen
               THEN Leave(i, Unchanged([r.plain EXCEPT !.body = cache_gen[r.key],
                                                       !.ce = r.key[2]]))
               ELSE Advance(i, fs, "gen")

\* encode_str(&resp, &encoding)
GenEncode(i) ==
    /\ i \in 1..Len(flight)
    /\ flight[i].pc = "gen"
    /\ IF flight[i].req.codec
       THEN Advance(i, fs, "insert")
       ELSE Leave(i, Unchanged([flight[i].plain EXCEPT !.tried = TRUE]))

\* cache.write(): granted when nobody holds the lock
LockWrite(i) ==
    /\ i \in 1..Len(flight)
    /\ flight[i].pc \in {"negative", "positive", "insert"}
    /\ Readers(CacheOf(flight[i])) = {}
    /\ Writers(CacheOf(flight[i])) = {}
    /\ Advance(i, fs, CASE flight[i].pc = "negative" -> "writing_negative"
                        [] flight[i].pc = "positive" -> "writing_positive"
                        [] OTHER -> "writing")

\* under the write guard: the insertion, what follows it in the guard's
\* scope, and the end of the scope
Insert(i) ==
    /\ i \in 1..Len(flight)
    /\ HoldsWrite(flight[i])
    /\ CASE flight[i].pc = "writing_negative" -> InsertNegative(i)
         [] flight[i].pc = "writing_positive" -> InsertPositive(i)
         [] OTHER ->
              \E r \in {flight[i]} :
              \E cache \in {CacheInsert(cache_gen, r.key, Compress(r.plain.body, r.key[2]))} :
                 Leave(i, Result([r.plain EXCEPT !.body = cache[r.key], !.ce = r.key[2],
                                                 !.tried = TRUE],
                                 fs, cache, cache_fs))

\* what the threads inside the handlers do
Threads ==
    \E i \in 1..MaxReqs :
       \/ LockRead(i)
       \/ Lookup(i)
       \/ EncEncode(i)
       \/ EncGain(i)
       \/ GenEncode(i)
       \/ LockWrite(i)
       \/ Insert(i)

NextLocks ==
    \/ \E url \in RaceURLs, ae \in SupportedEncodings, codec \in BOOLEAN :
           LockArrive(Request("GET", url, NoRange, ae, codec, <<>>, FALSE, FALSE, FALSE))
    \/ Threads

\* the hosted file is one that compresses too little or one that compresses
\* well
InitLocks ==
    /\ fs \in {[InitFS EXCEPT ![Append(Root, "a")] = FileNode(d)] : d \in {<<1>>, <<1, 1, 1>>}}
    /\ cfg = Config(FALSE, FALSE, TRUE, FALSE)
    /\ build = [overflow_checks |-> TRUE]
    /\ cache_gen = <<>>
    /\ cache_fs = <<>>
    /\ Idle

\* every thread that can run does: a thread inside a handler is not suspended
\* for ever while one of them can take a step
SpecLocks == InitLocks /\ [][NextLocks]_vars /\ WF_vars(Threads)

\* the request numbered n is at one of the positions pcs
At(n, pcs) == \E i \in 1..Len(flight) : flight[i].id = n /\ flight[i].pc \in pcs

\* the request numbered n holds a read guard, a write guard
ReadHeldBy(n) == \E i \in 1..Len(flight) : flight[i].id = n /\ HoldsRead(flight[i])
WriteHeldBy(n) == \E i \in 1..Len(flight) : flight[i].id = n /\ HoldsWrite(flight[i])

\* the caches a request holds a guard of
HeldCaches(r) == {c \in {"fs", "gen"} : CacheOf(r) = c /\ (HoldsRead(r) \/ HoldsWrite(r))}

\* C31: cache locking cannot deadlock.  Within one request the read guard of a
\* cache is dropped before the write lock of that cache is requested; no
\* request holds guards of both caches at once; and every request that waits
\* for a cache lock, for reading or for writing, eventually acquires it.
C31_NoDeadlock ==
    /\ [](\A i \in 1..Len(flight) :
             /\ HoldsRead(flight[i])
                   => flight[i].pc \notin {"negative", "positive", "insert"}
                      /\ ~HoldsWrite(flight[i])
             /\ Cardinality(HeldCaches(flight[i])) <= 1)
    /\ \A n \in 1..MaxReqs :
          /\ At(n, {"read"}) ~> ReadHeldBy(n)
          /\ At(n, {"negative", "positive", "insert"}) ~> WriteHeldBy(n)

\* a request waits for the write lock of a cache while another request holds
\* a guard of the same cache
C31_Witness ==
    \E i, j \in 1..Len(flight) :
       /\ i # j
       /\ CacheOf(flight[i]) = CacheOf(flight[j])
       /\ flight[i].pc \in {"negative", "positive", "insert"}
       /\ HoldsRead(flight[j]) \/ HoldsWrite(flight[j])

====
